---- MODULE Spec2Model ----
(***************************************************************************)
(* A model of the BLP2 texture library: the header/chain parser, the       *)
(* palette, block (DXT1/3/5) and truecolor codecs, the decoder dispatcher  *)
(* and the container builder.  Buffers are sequences of bytes (index 0 of  *)
(* the source is element 1 here); every operation of the library is an     *)
(* operator computed as the source computes it, and the actions apply the  *)
(* operations to inputs drawn from bounded sets.                           *)
(***************************************************************************)
EXTENDS Integers, Sequences, FiniteSets, TLC

VARIABLES pc, data, header, mipmaps, image, opts, payload, result, description

vars == <<pc, data, header, mipmaps, image, opts, payload, result, description>>

(***************************************************************************)
(* Bounds of the model.                                                    *)
(***************************************************************************)
\* largest width and height of the images the codecs are run on
MaxDim == 5
\* largest buffer length fed to the chain walk
MaxChainLen == 8
\* largest width of the images the palette codec is run on (height 1 or 2)
MaxRawWidth == 5
\* blocks per side of the solid images (the side is a whole number of
\* 4-texel blocks)
SolidBlocks == 2

SolidSide == 4 * SolidBlocks

\* pixels of the buffers handed to generatePalette, and colour limits tried
MaxPixels == 4

MaxColors == 3

(***************************************************************************)
(* Arithmetic helpers.                                                     *)
(***************************************************************************)
Min(a, b) == IF a < b THEN a ELSE b

Max(a, b) == IF a > b THEN a ELSE b

Pow2(n) == 2 ^ n

\* Math.round(a / b) for a >= 0, b > 0: halves round up
Round(a, b) == (2 * a + b) \div (2 * b)

\* Math.ceil(a / b) for a >= 0, b > 0
Ceil(a, b) == (a + b - 1) \div b

\* x >> 1 on a value below 2^31
Sar1(x) == x \div 2

\* Uint8Array.prototype.slice(a, b): the elements a..b-1 that exist
slice(d, a, b) == SubSeq(d, Min(a, Len(d)) + 1, Min(b, Len(d)))

\* a function on 1..n as a tuple, each element evaluated once
Tup(f) == f \o <<>>

\* d[i] where a read past the end (undefined) ends up as 0
Rd(d, i) == IF i >= 0 /\ i < Len(d) THEN d[i + 1] ELSE 0

(***************************************************************************)
(* Header/chain parser.                                                    *)
(***************************************************************************)
\* the tag 'BLP2'
MAGIC == <<66, 76, 80, 50>>

HEADER_SIZE == 148

NUM_SLOTS == 16

\* DataView.getUint32(off, littleEndian = true)
getUint32(d, off) ==
    d[off + 1] + 256 * d[off + 2] + 65536 * d[off + 3] + 16777216 * d[off + 4]

\* DataView.getUint8(off)
getUint8(d, off) == d[off + 1]

\* the reads parseBlpHeader makes after the magic check: <<offset, width>>
HeaderReads ==
    <<  <<4, 4>>, <<8, 1>>, <<9, 1>>, <<10, 1>>, <<11, 1>>, <<12, 4>>, <<16, 4>> >>
    \o [i \in 1..NUM_SLOTS |-> <<20 + (i - 1) * 4, 4>>]
    \o [i \in 1..NUM_SLOTS |-> <<84 + (i - 1) * 4, 4>>]

NoHeader ==
    [magic |-> <<>>, version |-> 0, compression |-> 0, alphaSize |-> 0,
     preferredFormat |-> 0, hasMips |-> 0, width |-> 0, height |-> 0,
     mipOffsets |-> [i \in 0..(NUM_SLOTS - 1) |-> 0],
     mipSizes |-> [i \in 0..(NUM_SLOTS - 1) |-> 0]]

parseBlpHeader_VersionFirst(d) ==
    IF \E k \in 1..Len(HeaderReads) :
           HeaderReads[k][1] + HeaderReads[k][2] > Len(d)
    THEN [error |-> "RangeError", h |-> NoHeader]
    ELSE IF slice(d, 0, 4) # MAGIC
    THEN [error |-> "BadMagic", h |-> NoHeader]
    ELSE [error |-> "none", h |-> NoHeader]

\* parseBlpHeader: the magic is compared first, then every field is read
\* through the DataView, whose reads past the end throw a RangeError
parseBlpHeader(d) ==
    IF slice(d, 0, 4) # MAGIC
    THEN [error |-> "BadMagic", h |-> NoHeader]
    ELSE IF \E k \in 1..Len(HeaderReads) :
                HeaderReads[k][1] + HeaderReads[k][2] > Len(d)
    THEN [error |-> "RangeError", h |-> NoHeader]
    ELSE [error |-> "none",
          h |-> [magic |-> slice(d, 0, 4),
                 version |-> getUint32(d, 4),
                 compression |-> getUint8(d, 8),
                 alphaSize |-> getUint8(d, 9),
                 preferredFormat |-> getUint8(d, 10),
                 hasMips |-> getUint8(d, 11),
                 width |-> getUint32(d, 12),
                 height |-> getUint32(d, 16),
                 mipOffsets |-> [i \in 0..(NUM_SLOTS - 1) |-> getUint32(d, 20 + i * 4)],
                 mipSizes |-> [i \in 0..(NUM_SLOTS - 1) |-> getUint32(d, 84 + i * 4)]]]

RECURSIVE extractLoop_OffByOne(_, _, _, _, _, _)
extractLoop_OffByOne(d, h, i, mipWidth, mipHeight, acc) ==
    IF i = NUM_SLOTS
    THEN [error |-> "none", slot |-> 0, levels |-> acc]
    ELSE LET offset == h.mipOffsets[i]
             size == h.mipSizes[i]
             nw == Max(1, Sar1(mipWidth))
             nh == Max(1, Sar1(mipHeight))
         IN IF offset > 0 /\ size > 0
            THEN IF offset + size > Len(d) + 1
                 THEN [error |-> "OutOfBounds", slot |-> i, levels |-> <<>>]
                 ELSE extractLoop_OffByOne(d, h, i + 1, nw, nh,
                          Append(acc, [width |-> mipWidth, height |-> mipHeight,
                                       offset |-> offset, size |-> size,
                                       data |-> slice(d, offset, offset + size)]))
            ELSE extractLoop_OffByOne(d, h, i + 1, nw, nh, acc)

extractMipmaps_OffByOne(d, h) ==
    extractLoop_OffByOne(d, h, 0, h.width, h.height, <<>>)

\* the loop of extractMipmaps from slot i on, with the levels pushed so far
RECURSIVE extractLoop(_, _, _, _, _, _)
extractLoop(d, h, i, mipWidth, mipHeight, acc) ==
    IF i = NUM_SLOTS
    THEN [error |-> "none", slot |-> 0, levels |-> acc]
    ELSE LET offset == h.mipOffsets[i]
             size == h.mipSizes[i]
             nw == Max(1, Sar1(mipWidth))
             nh == Max(1, Sar1(mipHeight))
         IN IF offset > 0 /\ size > 0
            THEN IF offset + size > Len(d)
                 THEN [error |-> "OutOfBounds", slot |-> i, levels |-> <<>>]
                 ELSE extractLoop(d, h, i + 1, nw, nh,
                          Append(acc, [width |-> mipWidth, height |-> mipHeight,
                                       offset |-> offset, size |-> size,
                                       data |-> slice(d, offset, offset + size)]))
            ELSE extractLoop(d, h, i + 1, nw, nh, acc)

\* extractMipmaps: a throw discards the levels pushed before it
extractMipmaps(d, h) == extractLoop(d, h, 0, h.width, h.height, <<>>)

(***************************************************************************)
(* Block codec (DXT1/DXT3/DXT5).                                           *)
(***************************************************************************)
SetMax(S) == CHOOSE x \in S : \A y \in S : y <= x

SetMin(S) == CHOOSE x \in S : \A y \in S : x <= y

rgb565ToRgb888_Shift(c) ==
    << ((c \div 2048) % 32) * 8, ((c \div 32) % 64) * 4, (c % 32) * 8 >>

\* rgb565ToRgb888: proportional expansion, rounded
rgb565ToRgb888(c) ==
    << Round(((c \div 2048) % 32) * 255, 31),
       Round(((c \div 32) % 64) * 255, 63),
       Round((c % 32) * 255, 31) >>

\* rgb888ToRgb565: (x * 31 / 255) & 0x1f truncates
rgb888ToRgb565(r, g, b) ==
    (((r * 31) \div 255) % 32) * 2048 + (((g * 63) \div 255) % 64) * 32
        + (((b * 31) \div 255) % 32)

\* buildAlphaPalette: the 8-entry alpha ramp, entry j at position j + 1
buildAlphaPalette(alpha0, alpha1) ==
    IF alpha0 > alpha1
    THEN <<alpha0, alpha1>>
         \o [i \in 1..6 |-> Round((7 - i) * alpha0 + i * alpha1, 7)]
    ELSE <<alpha0, alpha1>>
         \o [i \in 1..4 |-> Round((5 - i) * alpha0 + i * alpha1, 5)]
         \o <<0, 255>>

rampPalette_Average(color0, color1) ==
    LET e0 == rgb565ToRgb888(color0)
        e1 == rgb565ToRgb888(color1)
    IN << e0, e1,
          Tup([c \in 1..3 |-> Round(e0[c] + e1[c], 2)]),
          Tup([c \in 1..3 |-> Round(e0[c] + 2 * e1[c], 3)]) >>

\* the 4-colour ramp of DXT3/DXT5 decoding
rampPalette(color0, color1) ==
    LET e0 == rgb565ToRgb888(color0)
        e1 == rgb565ToRgb888(color1)
    IN << e0, e1,
          Tup([c \in 1..3 |-> Round(2 * e0[c] + e1[c], 3)]),
          Tup([c \in 1..3 |-> Round(e0[c] + 2 * e1[c], 3)]) >>

\* the colour table of DXT1 (encoder and decoder): the ramp when
\* color0 > color1, else the average and black
dxt1Palette(color0, color1) ==
    LET e0 == rgb565ToRgb888(color0)
        e1 == rgb565ToRgb888(color1)
    IN IF color0 > color1
       THEN rampPalette(color0, color1)
       ELSE << e0, e1, Tup([c \in 1..3 |-> Round(e0[c] + e1[c], 2)]), <<0, 0, 0>> >>

findBestColors_MinFirst(px) ==
    LET R == {px[4 * i + 1] : i \in 0..15}
        G == {px[4 * i + 2] : i \in 0..15}
        B == {px[4 * i + 3] : i \in 0..15}
    IN << rgb888ToRgb565(SetMin(R), SetMin(G), SetMin(B)),
          rgb888ToRgb565(SetMax(R), SetMax(G), SetMax(B)) >>

\* findBestColors: color0 from the per-channel maximum, color1 from the minimum
findBestColors(px) ==
    LET R == {px[4 * i + 1] : i \in 0..15}
        G == {px[4 * i + 2] : i \in 0..15}
        B == {px[4 * i + 3] : i \in 0..15}
    IN << rgb888ToRgb565(SetMax(R), SetMax(G), SetMax(B)),
          rgb888ToRgb565(SetMin(R), SetMin(G), SetMin(B)) >>

\* the scan "if (distance < minDistance)" over a table of n distances:
\* the lowest index among the nearest entries
closestIdx(dist, n) ==
    CHOOSE j \in 0..(n - 1) :
        /\ \A k \in 0..(n - 1) : dist[j + 1] <= dist[k + 1]
        /\ \A k \in 0..(j - 1) : dist[k + 1] > dist[j + 1]

Sq(x) == x * x

Abs(x) == IF x < 0 THEN -x ELSE x

\* the 2-bit colour index compressDXT1Block gives texel i of the block
colorIndexOf(px, i, pal) ==
    closestIdx(Tup([j \in 1..4 |-> Sq(px[4 * i + 1] - pal[j][1])
                                    + Sq(px[4 * i + 2] - pal[j][2])
                                    + Sq(px[4 * i + 3] - pal[j][3])]), 4)

\* compressDXT1Block: 64 RGBA bytes -> 8 bytes
compressDXT1Block(px) ==
    LET cs == findBestColors(px)
        pal == dxt1Palette(cs[1], cs[2])
        idx == Tup([i \in 1..16 |-> colorIndexOf(px, i - 1, pal)])
    IN << cs[1] % 256, (cs[1] \div 256) % 256, cs[2] % 256, (cs[2] \div 256) % 256 >>
       \o [k \in 1..4 |-> idx[4 * k - 3] + 4 * idx[4 * k - 2]
                          + 16 * idx[4 * k - 1] + 64 * idx[4 * k]]

\* compressDXT3Block: 8 bytes of 4-bit alpha, then the colour block
compressDXT3Block(px) ==
    [k \in 1..8 |-> Round(px[4 * (2 * (k - 1)) + 4], 17)
                    + 16 * Round(px[4 * (2 * (k - 1) + 1) + 4], 17)]
    \o compressDXT1Block(px)

\* compressDXT5Block: alpha endpoints, 48 bits of 3-bit indices, colour block
compressDXT5Block(px) ==
    LET A == {px[4 * i + 4] : i \in 0..15}
        maxAlpha == SetMax(A)
        minAlpha == SetMin(A)
        ramp == buildAlphaPalette(maxAlpha, minAlpha)
        idx == Tup([i \in 1..16 |->
                   closestIdx(Tup([j \in 1..8 |-> Abs(px[4 * i] - ramp[j])]), 8)])
        bit(j) == (idx[(j \div 3) + 1] \div Pow2(j % 3)) % 2
    IN <<maxAlpha, minAlpha>>
       \o [m \in 1..6 |-> bit(8 * (m - 1)) + 2 * bit(8 * (m - 1) + 1)
                          + 4 * bit(8 * (m - 1) + 2) + 8 * bit(8 * (m - 1) + 3)
                          + 16 * bit(8 * (m - 1) + 4) + 32 * bit(8 * (m - 1) + 5)
                          + 64 * bit(8 * (m - 1) + 6) + 128 * bit(8 * (m - 1) + 7)]
       \o compressDXT1Block(px)

\* the 4x4 tile (bx, by) of the image as 64 bytes, zero outside the image
blockPixels(img, bx, by) ==
    Tup([k \in 1..64 |->
        LET srcX == bx * 4 + (((k - 1) \div 4) % 4)
            srcY == by * 4 + ((k - 1) \div 16)
        IN IF srcX < img.width /\ srcY < img.height
           THEN img.pixels[(srcY * img.width + srcX) * 4 + ((k - 1) % 4) + 1]
           ELSE 0])

blocksWide_Floor(width) == width \div 4

\* Math.ceil(width / 4)
blocksWide(width) == Ceil(width, 4)

\* the output buffer of blocksWide * blocksHigh * blockSize bytes, block b set
\* at offset b * blockSize
layBlocks(blocks, count, blockSize) ==
    Tup([k \in 1..(count * blockSize) |->
        blocks[((k - 1) \div blockSize) + 1][((k - 1) % blockSize) + 1]])

compressDXT1(img) ==
    LET bw == blocksWide(img.width)
        bh == blocksWide(img.height)
    IN layBlocks(Tup([b \in 1..(bw * bh) |->
                     compressDXT1Block(blockPixels(img, (b - 1) % bw, (b - 1) \div bw))]),
                 bw * bh, 8)

compressDXT3(img) ==
    LET bw == blocksWide(img.width)
        bh == blocksWide(img.height)
    IN layBlocks(Tup([b \in 1..(bw * bh) |->
                     compressDXT3Block(blockPixels(img, (b - 1) % bw, (b - 1) \div bw))]),
                 bw * bh, 16)

compressDXT5(img) ==
    LET bw == blocksWide(img.width)
        bh == blocksWide(img.height)
    IN layBlocks(Tup([b \in 1..(bw * bh) |->
                     compressDXT5Block(blockPixels(img, (b - 1) % bw, (b - 1) \div bw))]),
                 bw * bh, 16)

\* the 2-bit colour index of texel t in the 4 index bytes at d[at..at+3]
colorBitsIndex(d, at, t) == (Rd(d, at + (t \div 4)) \div Pow2(2 * (t % 4))) % 4

\* the output of a block decoder: pixel p comes from texel 4*(y%4) + x%4 of
\* block (y/4) * blocksWide + x/4; texels outside the image are skipped
\* (texels: block b at b + 1, its texel t at t + 1)
unBlock(texels, width, height) ==
    [width |-> width, height |-> height,
     pixels |-> Tup([k \in 1..(width * height * 4) |->
        LET p == (k - 1) \div 4
            x == p % width
            y == p \div width
        IN texels[(y \div 4) * blocksWide(width) + (x \div 4) + 1]
                 [4 * (y % 4) + (x % 4) + 1][((k - 1) % 4) + 1]])]

decompressDXT1_StrictLess(d, width, height) ==
    LET nb == blocksWide(width) * blocksWide(height)
        texels ==
            Tup([b \in 1..nb |->
                LET src == (b - 1) * 8
                    color0 == Rd(d, src) + 256 * Rd(d, src + 1)
                    color1 == Rd(d, src + 2) + 256 * Rd(d, src + 3)
                    pal == dxt1Palette(color0, color1)
                IN Tup([t \in 1..16 |->
                       LET ci == colorBitsIndex(d, src + 4, t - 1)
                       IN pal[ci + 1]
                          \o <<IF color0 < color1 /\ ci = 3 THEN 0 ELSE 255>>])])
    IN unBlock(texels, width, height)

\* decompressDXT1: index 3 is transparent when color0 <= color1
decompressDXT1(d, width, height) ==
    LET nb == blocksWide(width) * blocksWide(height)
        texels ==
            Tup([b \in 1..nb |->
                LET src == (b - 1) * 8
                    color0 == Rd(d, src) + 256 * Rd(d, src + 1)
                    color1 == Rd(d, src + 2) + 256 * Rd(d, src + 3)
                    pal == dxt1Palette(color0, color1)
                IN Tup([t \in 1..16 |->
                       LET ci == colorBitsIndex(d, src + 4, t - 1)
                       IN pal[ci + 1]
                          \o <<IF color0 <= color1 /\ ci = 3 THEN 0 ELSE 255>>])])
    IN unBlock(texels, width, height)

\* decompressDXT3: explicit 4-bit alpha, times 17
decompressDXT3(d, width, height) ==
    LET nb == blocksWide(width) * blocksWide(height)
        texels ==
            Tup([b \in 1..nb |->
                LET src == (b - 1) * 16
                    color0 == Rd(d, src + 8) + 256 * Rd(d, src + 9)
                    color1 == Rd(d, src + 10) + 256 * Rd(d, src + 11)
                    pal == rampPalette(color0, color1)
                IN Tup([t \in 1..16 |->
                       pal[colorBitsIndex(d, src + 12, t - 1) + 1]
                       \o <<((Rd(d, src + ((t - 1) \div 2)) \div Pow2(4 * ((t - 1) % 2))) % 16)
                            * 17>>])])
    IN unBlock(texels, width, height)

\* bit j (0..31) of the 32-bit integer the alphaBits expression evaluates to:
\* the terms of bytes 6 and 7 are multiples of 2^32 and vanish under "|"
alphaBit(d, src, j) == (Rd(d, src + 2 + (j \div 8)) \div Pow2(j % 8)) % 2

\* (alphaBits >> (3 * t)) & 7: the shift count is taken modulo 32 and the
\* shift extends the sign bit
alphaIndexOf(d, src, t) ==
    LET s == (3 * t) % 32
    IN alphaBit(d, src, Min(s, 31)) + 2 * alphaBit(d, src, Min(s + 1, 31))
       + 4 * alphaBit(d, src, Min(s + 2, 31))

\* decompressDXT5: interpolated alpha ramp
decompressDXT5(d, width, height) ==
    LET nb == blocksWide(width) * blocksWide(height)
        texels ==
            Tup([b \in 1..nb |->
                LET src == (b - 1) * 16
                    ramp == buildAlphaPalette(Rd(d, src), Rd(d, src + 1))
                    color0 == Rd(d, src + 8) + 256 * Rd(d, src + 9)
                    color1 == Rd(d, src + 10) + 256 * Rd(d, src + 11)
                    pal == rampPalette(color0, color1)
                IN Tup([t \in 1..16 |->
                       pal[colorBitsIndex(d, src + 12, t - 1) + 1]
                       \o <<ramp[alphaIndexOf(d, src, t - 1) + 1]>>])])
    IN unBlock(texels, width, height)

(***************************************************************************)
(* Palette codec (RAW1) and truecolor codec (RAW3).                        *)
(***************************************************************************)
\* the first loop of generatePalette: the distinct (R,G,B) triples of the
\* pixels in order of first appearance (a pixel opens a palette slot when no
\* earlier pixel has its key; the slot number is the count of slots before)
firstPass(pixels) ==
    LET n == Len(pixels) \div 4
        rgb(i) == <<pixels[4 * i + 1], pixels[4 * i + 2], pixels[4 * i + 3]>>
        opens == Tup([i \in 1..n |-> \A q \in 0..(i - 2) : rgb(q) # rgb(i - 1)])
        openers == {i \in 1..n : opens[i]}
        slot == Tup([i \in 1..n |-> Cardinality({q \in openers : q < i})])
    IN Tup([k \in 1..Cardinality(openers) |->
           rgb((CHOOSE i \in openers : slot[i] = k - 1) - 1)])

\* a list of triples as bytes
flatten3(colors) ==
    Tup([k \in 1..(3 * Len(colors)) |-> colors[((k - 1) \div 3) + 1][((k - 1) % 3) + 1]])

generatePalette_FirstColours(pixels, maxColors) ==
    LET n == Len(pixels) \div 4
        colors == firstPass(pixels)
        rgb(i) == <<pixels[4 * i + 1], pixels[4 * i + 2], pixels[4 * i + 3]>>
    IN IF Len(colors) > maxColors
       THEN LET reduced == Tup([i \in 1..maxColors |-> colors[i]])
            IN [palette |-> flatten3(reduced),
                indices |-> Tup([i \in 1..n |->
                    closestIdx(Tup([j \in 1..maxColors |->
                                   Sq(rgb(i - 1)[1] - reduced[j][1])
                                   + Sq(rgb(i - 1)[2] - reduced[j][2])
                                   + Sq(rgb(i - 1)[3] - reduced[j][3])]),
                               maxColors) % 256])]
       ELSE [palette |-> flatten3(colors),
             indices |-> Tup([i \in 1..n |->
                 ((CHOOSE k \in 1..Len(colors) : colors[k] = rgb(i - 1)) - 1) % 256])]

\* generatePalette: palette as R,G,B bytes, one index per pixel (stored in a
\* Uint8Array, so modulo 256)
generatePalette(pixels, maxColors) ==
    LET n == Len(pixels) \div 4
        colors == firstPass(pixels)
        rgb(i) == <<pixels[4 * i + 1], pixels[4 * i + 2], pixels[4 * i + 3]>>
    IN IF Len(colors) > maxColors
       THEN LET step == Len(colors) \div maxColors
                reduced == Tup([i \in 1..maxColors |-> colors[(i - 1) * step + 1]])
            IN [palette |-> flatten3(reduced),
                indices |-> Tup([i \in 1..n |->
                    closestIdx(Tup([j \in 1..maxColors |->
                                   Sq(rgb(i - 1)[1] - reduced[j][1])
                                   + Sq(rgb(i - 1)[2] - reduced[j][2])
                                   + Sq(rgb(i - 1)[3] - reduced[j][3])]),
                               maxColors) % 256])]
       ELSE [palette |-> flatten3(colors),
             indices |-> Tup([i \in 1..n |->
                 ((CHOOSE k \in 1..Len(colors) : colors[k] = rgb(i - 1)) - 1) % 256])]

alphaDataSize_Floor(numPixels, alphaSize) ==
    IF alphaSize = 8 THEN numPixels
    ELSE IF alphaSize = 4 THEN numPixels \div 2
    ELSE IF alphaSize = 1 THEN numPixels \div 8
    ELSE 0

\* the size of the alpha plane for a depth
alphaDataSize(numPixels, alphaSize) ==
    IF alphaSize = 8 THEN numPixels
    ELSE IF alphaSize = 4 THEN Ceil(numPixels, 2)
    ELSE IF alphaSize = 1 THEN Ceil(numPixels, 8)
    ELSE 0

alpha1Of_Inclusive(alpha) == IF alpha >= 127 THEN 1 ELSE 0

\* the depth-1 threshold of compressRAW1
alpha1Of(alpha) == IF alpha > 127 THEN 1 ELSE 0

\* compressRAW1: the index plane, then the packed alpha plane
compressRAW1(img, alphaSize) ==
    LET numPixels == img.width * img.height
        indices == generatePalette(img.pixels, 256).indices
        size == alphaDataSize(numPixels, alphaSize)
        alpha(i) == IF i < numPixels THEN img.pixels[4 * i + 4] ELSE 0
        alphaData ==
            Tup([k \in 1..size |->
                IF alphaSize = 8 THEN alpha(k - 1)
                ELSE IF alphaSize = 4
                THEN Round(alpha(2 * (k - 1)), 17)
                     + (IF 2 * (k - 1) + 1 < numPixels
                        THEN 16 * Round(alpha(2 * (k - 1) + 1), 17) ELSE 0)
                ELSE LET bit(b) == IF 8 * (k - 1) + b < numPixels
                                   THEN alpha1Of(alpha(8 * (k - 1) + b)) * Pow2(b)
                                   ELSE 0
                     IN bit(0) + bit(1) + bit(2) + bit(3)
                        + bit(4) + bit(5) + bit(6) + bit(7)])
    IN Tup([k \in 1..(numPixels + size) |->
           IF k <= numPixels THEN indices[k] ELSE alphaData[k - numPixels]])

\* decompressRAW1: palette bytes are read B,G,R; a read past the end of the
\* data or of the palette stores 0
decompressRAW1(d, width, height, palette, alphaSize) ==
    LET numPixels == width * height
        indices == slice(d, 0, numPixels)
        alphaData ==
            IF alphaSize = 8 THEN slice(d, numPixels, numPixels * 2)
            ELSE IF alphaSize = 4
            THEN slice(d, numPixels, numPixels + Ceil(numPixels, 2))
            ELSE IF alphaSize = 1
            THEN slice(d, numPixels, numPixels + Ceil(numPixels, 8))
            ELSE <<>>
        texel(i) ==
            LET known == i < Len(indices)
                palIdx == Rd(indices, i) * 4
            IN << IF known THEN Rd(palette, palIdx + 2) ELSE 0,
                  IF known THEN Rd(palette, palIdx + 1) ELSE 0,
                  IF known THEN Rd(palette, palIdx) ELSE 0,
                  IF alphaSize = 8 THEN Rd(alphaData, i)
                  ELSE IF alphaSize = 4
                  THEN ((Rd(alphaData, i \div 2) \div Pow2(4 * (i % 2))) % 16) * 17
                  ELSE IF alphaSize = 1
                  THEN (IF (Rd(alphaData, i \div 8) \div Pow2(i % 8)) % 2 = 1
                        THEN 255 ELSE 0)
                  ELSE 255 >>
    IN [error |-> "none", width |-> width, height |-> height,
        pixels |-> Tup([k \in 1..(numPixels * 4) |->
                       texel((k - 1) \div 4)[((k - 1) % 4) + 1]])]

\* the channel permutation of both RAW3 directions: bytes 0 and 2 swapped
swizzle(d, numPixels) ==
    Tup([k \in 1..(numPixels * 4) |->
        LET c == (k - 1) % 4
            base == (k - 1) - c
        IN Rd(d, base + (IF c = 0 THEN 2 ELSE IF c = 2 THEN 0 ELSE c))])

decompressRAW3(d, width, height) ==
    [error |-> "none", width |-> width, height |-> height,
     pixels |-> swizzle(d, width * height)]

compressRAW3_NoSwap(img) == slice(img.pixels, 0, img.width * img.height * 4)

compressRAW3(img) == swizzle(img.pixels, img.width * img.height)

(***************************************************************************)
(* Values of the variables that hold nothing yet.                          *)
(***************************************************************************)
NoParse == [error |-> "unset", h |-> NoHeader]

NoChain == [error |-> "unset", slot |-> 0, levels |-> <<>>]

NoImage == [error |-> "unset", width |-> 0, height |-> 0, pixels |-> <<>>]

withError(img) == [error |-> "none", width |-> img.width, height |-> img.height,
                   pixels |-> img.pixels]

failure(e) == [error |-> e, width |-> 0, height |-> 0, pixels |-> <<>>]

NoDescription ==
    [error |-> "unset", compressionDesc |-> "", alphaDesc |-> "", mipDesc |-> "",
     preferredFormatDesc |-> "", dxtType |-> "", dxtExplain |-> "", lineCount |-> 0]

\* BLPColorEncoding
PALETTE == 1

DXT == 2

ARGB8888 == 3

\* BLPPixelFormat
DXT1 == 0

DXT3 == 1

DXT5 == 7

\* DEFAULT_OPTIONS of the builder
DEFAULT_OPTIONS ==
    [compression |-> DXT, alphaSize |-> 8, preferredFormat |-> DXT1,
     generateMipmaps |-> FALSE, dxtFormat |-> DXT1, resizeMode |-> "pad-center",
     preferLargerResize |-> TRUE, autoResize |-> TRUE, fillColor |-> <<0, 0, 0, 0>>]

NoOpts == DEFAULT_OPTIONS

(***************************************************************************)
(* Inputs of the parser.                                                   *)
(***************************************************************************)
\* writeUint32: a value below 2^31 as four little-endian bytes
writeUint32(v) ==
    <<v % 256, (v \div 256) % 256, (v \div 65536) % 256, (v \div 16777216) % 256>>

RECURSIVE writeTable(_, _)
writeTable(t, i) ==
    IF i = NUM_SLOTS THEN <<>> ELSE writeUint32(t[i]) \o writeTable(t, i + 1)

\* the 0x94 header bytes in the layout the builder writes and the parser reads
HeaderBytes(magic, h) ==
    magic \o writeUint32(h.version)
    \o <<h.compression, h.alphaSize, h.preferredFormat, h.hasMips>>
    \o writeUint32(h.width) \o writeUint32(h.height)
    \o writeTable(h.mipOffsets, 0) \o writeTable(h.mipSizes, 0)

\* an offset or size table with at most two nonzero entries
Table2(i, a, j, b) ==
    [k \in 0..(NUM_SLOTS - 1) |-> IF k = i THEN a ELSE IF k = j THEN b ELSE 0]

Magics == {MAGIC, <<66, 76, 80, 49>>, <<0, 76, 80, 50>>, <<66, 76, 80, 51>>}

BufferLengths == {0, 1, 3, 4, 5, 7, 8, 11, 20, 147, 148, 152}

ParserInputs ==
    { SubSeq(HeaderBytes(m, [NoHeader EXCEPT !.version = v, !.compression = c,
                                             !.width = w, !.height = 258,
                                             !.mipOffsets = Table2(0, 148, 1, o),
                                             !.mipSizes = Table2(0, 4, 1, 70000)])
             \o <<1, 2, 3, 4>>, 1, n) :
        m \in Magics, v \in {0, 1, 2, 256}, c \in {1, 2}, w \in {0, 64},
        o \in {0, 16777217}, n \in BufferLengths }

InitParser ==
    /\ pc = "start"
    /\ data \in ParserInputs
    /\ header = NoParse
    /\ mipmaps = NoChain
    /\ image = NoImage
    /\ opts = NoOpts
    /\ payload = <<>>
    /\ result = NoImage
    /\ description = NoDescription

\* decodeBlpData/describeBLPHeader, first statement: parse the header
ParseBlpHeader ==
    /\ pc = "start"
    /\ header' = parseBlpHeader(data)
    /\ pc' = IF header'.error = "none" THEN "parsed" ELSE "failed"
    /\ UNCHANGED <<data, mipmaps, image, opts, payload, result, description>>

NextParser == ParseBlpHeader

SpecParser == InitParser /\ [][NextParser]_vars

(***************************************************************************)
(* Inputs of the chain walk: a header handed to extractMipmaps directly.   *)
(***************************************************************************)
SlotChoices == {0, 1, 2, 5, 15}

ChainOffsets == {0, 1, 6}

ChainSizes == {0, 3, 5}

ChainDims == {0, 1, 5, 8}

\* a buffer of n distinguishable bytes
Ramp(n) == Tup([k \in 1..n |-> (7 * k) % 256])

InitChain ==
    /\ pc = "parsed"
    /\ \E n \in {4, MaxChainLen} : data = Ramp(n)
    /\ \E i \in SlotChoices, j \in SlotChoices, o1 \in ChainOffsets, o2 \in ChainOffsets,
          s1 \in ChainSizes, s2 \in ChainSizes, w \in ChainDims, hh \in {1, 3} :
          /\ i < j
          /\ header = [error |-> "none",
                       h |-> [NoHeader EXCEPT !.magic = MAGIC, !.version = 1,
                                              !.compression = 2,
                                              !.width = w, !.height = hh,
                                              !.mipOffsets = Table2(i, o1, j, o2),
                                              !.mipSizes = Table2(i, s1, j, s2)]]
    /\ mipmaps = NoChain
    /\ image = NoImage
    /\ opts = NoOpts
    /\ payload = <<>>
    /\ result = NoImage
    /\ description = NoDescription

\* decodeBlpData, second statement: walk the chain
ExtractMipmaps ==
    /\ pc = "parsed"
    /\ mipmaps' = extractMipmaps(data, header.h)
    /\ pc' = IF mipmaps'.error = "none" THEN "walked" ELSE "failed"
    /\ UNCHANGED <<data, header, image, opts, payload, result, description>>

NextChain == ExtractMipmaps

SpecChain == InitChain /\ [][NextChain]_vars

(***************************************************************************)
(* C1..C4: the parser.                                                     *)
(***************************************************************************)
Parsed == header.error # "unset"

Walked == mipmaps.error # "unset"

\* C1: a buffer whose first 4 bytes are not 'BLP2' (buffers of 4 bytes and
\* shorter ones included) fails with the bad-magic error and no other error.
C1_BadMagicFirst ==
    (Parsed /\ slice(data, 0, 4) # MAGIC) => header.error = "BadMagic"

C1_Witness ==
    /\ Parsed
    /\ Len(data) = 4
    /\ data # MAGIC
    /\ header.error = "BadMagic"

\* the populated slots of the header in hand whose end lies past the buffer
BadSlots ==
    { i \in 0..(NUM_SLOTS - 1) :
        /\ header.h.mipOffsets[i] # 0
        /\ header.h.mipSizes[i] # 0
        /\ header.h.mipOffsets[i] + header.h.mipSizes[i] > Len(data) }

\* C2: if some populated slot ends past the buffer the walk fails naming the
\* lowest such slot and returns no level; otherwise every level returned lies
\* inside the buffer and carries exactly size bytes.
C2_ChainInBounds ==
    Walked =>
        IF BadSlots # {}
        THEN /\ mipmaps.error = "OutOfBounds"
             /\ \A i \in BadSlots : mipmaps.slot <= i
             /\ mipmaps.slot \in BadSlots
             /\ mipmaps.levels = <<>>
        ELSE /\ mipmaps.error = "none"
             /\ \A k \in 1..Len(mipmaps.levels) :
                    /\ mipmaps.levels[k].offset + mipmaps.levels[k].size <= Len(data)
                    /\ Len(mipmaps.levels[k].data) = mipmaps.levels[k].size

\* a valid level precedes the slot that ends past the buffer
C2_Witness ==
    /\ Walked
    /\ mipmaps.error = "OutOfBounds"
    /\ mipmaps.slot > 0
    /\ \E i \in 0..(NUM_SLOTS - 1) :
          /\ i < mipmaps.slot
          /\ header.h.mipOffsets[i] # 0
          /\ header.h.mipSizes[i] # 0

\* the populated slots of the header in hand, ascending
RECURSIVE PopulatedFrom(_)
PopulatedFrom(i) ==
    IF i = NUM_SLOTS THEN <<>>
    ELSE IF header.h.mipOffsets[i] # 0 /\ header.h.mipSizes[i] # 0
         THEN <<i>> \o PopulatedFrom(i + 1)
         ELSE PopulatedFrom(i + 1)

\* C3: the walk returns one level per populated slot, ascending, the level of
\* slot i being max(1, width >> i) by max(1, height >> i), for every header,
\* width or height 0 included.
C3_LevelDimensions ==
    (Walked /\ mipmaps.error = "none") =>
        LET slots == PopulatedFrom(0)
        IN /\ Len(mipmaps.levels) = Len(slots)
           /\ \A k \in 1..Len(slots) :
                  /\ mipmaps.levels[k].offset = header.h.mipOffsets[slots[k]]
                  /\ mipmaps.levels[k].width
                         = Max(1, header.h.width \div Pow2(slots[k]))
                  /\ mipmaps.levels[k].height
                         = Max(1, header.h.height \div Pow2(slots[k]))

\* C4: a header with the right magic and a version other than 1 is rejected
\* with an unsupported-version error.
C4_VersionRejected ==
    (Parsed /\ Len(data) >= HEADER_SIZE /\ slice(data, 0, 4) = MAGIC
        /\ getUint32(data, 4) # 1)
    => header.error = "UnsupportedVersion"

(***************************************************************************)
(* The codecs run on images: compress, then decompress with the same       *)
(* width, height and depth, as the builder and the decoder pair them.      *)
(***************************************************************************)
\* the block encoder the builder picks for a format hint
compressDXT(img, preferredFormat) ==
    IF preferredFormat = DXT3 THEN compressDXT3(img)
    ELSE IF preferredFormat = DXT5 THEN compressDXT5(img)
    ELSE compressDXT1(img)

\* the block decoder the dispatcher picks for a format hint
decompressDXT(d, width, height, preferredFormat) ==
    IF preferredFormat = 1 THEN withError(decompressDXT3(d, width, height))
    ELSE IF preferredFormat = 7 THEN withError(decompressDXT5(d, width, height))
    ELSE withError(decompressDXT1(d, width, height))

\* the 256-entry palette block the builder writes: entry i is bytes
\* 3i..3i+2 of the generated palette and 255
rgbaPalette(pixels) ==
    LET palette == generatePalette(pixels, 256).palette
    IN Tup([k \in 1..1024 |->
           IF (k - 1) % 4 = 3 THEN 255
           ELSE Rd(palette, ((k - 1) \div 4) * 3 + ((k - 1) % 4))])

CompressDXT ==
    /\ pc = "image"
    /\ opts.compression = DXT
    /\ payload' = compressDXT(image, opts.preferredFormat)
    /\ pc' = "compressed"
    /\ UNCHANGED <<data, header, mipmaps, image, opts, result, description>>

DecompressDXT ==
    /\ pc = "compressed"
    /\ opts.compression = DXT
    /\ result' = decompressDXT(payload, image.width, image.height, opts.preferredFormat)
    /\ pc' = "decoded"
    /\ UNCHANGED <<data, header, mipmaps, image, opts, payload, description>>

CompressRAW1 ==
    /\ pc = "image"
    /\ opts.compression = PALETTE
    /\ payload' = compressRAW1(image, opts.alphaSize)
    /\ pc' = "compressed"
    /\ UNCHANGED <<data, header, mipmaps, image, opts, result, description>>

DecompressRAW1 ==
    /\ pc = "compressed"
    /\ opts.compression = PALETTE
    /\ result' = decompressRAW1(payload, image.width, image.height,
                                rgbaPalette(image.pixels), opts.alphaSize)
    /\ pc' = "decoded"
    /\ UNCHANGED <<data, header, mipmaps, image, opts, payload, description>>

\* an image whose pixel (x, y) is colour (a*x + b*y + c) mod Len(colors)
PatternImage(w, h, colors, a, b, c) ==
    [error |-> "none", width |-> w, height |-> h,
     pixels |-> Tup([k \in 1..(w * h * 4) |->
        LET p == (k - 1) \div 4
        IN colors[((a * (p % w) + b * (p \div w) + c) % Len(colors)) + 1]
                 [((k - 1) % 4) + 1]])]

\* an image whose pixel i is colors[f[i]]
ChosenImage(w, h, colors, f) ==
    [error |-> "none", width |-> w, height |-> h,
     pixels |-> Tup([k \in 1..(w * h * 4) |->
                    colors[f[(k - 1) \div 4]][((k - 1) % 4) + 1]])]

Tints ==
    << <<255, 0, 0, 255>>, <<0, 255, 0, 128>>, <<10, 20, 200, 0>>,
       <<250, 250, 250, 77>> >>

InitCodec(img, o) ==
    /\ pc = "image"
    /\ image = img
    /\ opts = o
    /\ data = <<>>
    /\ header = NoParse
    /\ mipmaps = NoChain
    /\ payload = <<>>
    /\ result = NoImage
    /\ description = NoDescription

InitDxt ==
    \E w \in 1..MaxDim, h \in 1..MaxDim, a \in 0..2, b \in 0..2, c \in 0..1,
       f \in {DXT1, DXT3, DXT5} :
        InitCodec(PatternImage(w, h, Tints, a, b, c),
                  [DEFAULT_OPTIONS EXCEPT !.preferredFormat = f])

NextDxt == CompressDXT \/ DecompressDXT

SpecDxt == InitDxt /\ [][NextDxt]_vars

\* colours whose three channels each run through all of 0..255
SolidColours ==
    {<<v, (5 * v + 3) % 256, 255 - v>> : v \in 0..255}
    \cup {<<(3 * v + 1) % 256, v, (7 * v) % 256>> : v \in 0..255}

InitSolid ==
    \E col \in SolidColours, f \in {DXT1, DXT3, DXT5} :
        InitCodec(PatternImage(SolidSide, SolidSide, <<col \o <<255>> >>, 0, 0, 0),
                  [DEFAULT_OPTIONS EXCEPT !.preferredFormat = f])

SpecSolid == InitSolid /\ [][NextDxt]_vars

PixelPairs ==
    { << <<200, 10, 10, 127>>, <<10, 200, 10, 128>> >>,
      << <<0, 0, 255, 0>>, <<9, 9, 10, 255>> >> }

InitRaw1 ==
    \E w \in 1..MaxRawWidth, h \in 1..2, pair \in PixelPairs, d \in {0, 1, 4, 8} :
        \E f \in [0..(w * h - 1) -> {1, 2}] :
            InitCodec(ChosenImage(w, h, pair, f),
                      [DEFAULT_OPTIONS EXCEPT !.compression = PALETTE, !.alphaSize = d])

NextRaw1 == CompressRAW1 \/ DecompressRAW1

SpecRaw1 == InitRaw1 /\ [][NextRaw1]_vars

(***************************************************************************)
(* Container dispatcher.                                                   *)
(***************************************************************************)
decodeLevels_LastLevel(d, h, levels) ==
    IF Len(levels) = 0 THEN failure("EmptyChain")
    ELSE LET main == levels[Len(levels)]
         IN IF h.compression = 1
            THEN decompressRAW1(main.data, main.width, main.height,
                                slice(d, 148, 148 + 1024), h.alphaSize)
            ELSE IF h.compression = 2
            THEN decompressDXT(main.data, main.width, main.height, h.preferredFormat)
            ELSE IF h.compression = 3
            THEN decompressRAW3(main.data, main.width, main.height)
            ELSE failure("UnsupportedCompression")

decodeLevels_KindFirst(d, h, levels) ==
    IF h.compression \notin {1, 2, 3} THEN failure("UnsupportedCompression")
    ELSE IF Len(levels) = 0 THEN failure("EmptyChain")
    ELSE LET main == levels[1]
         IN IF h.compression = 1
            THEN decompressRAW1(main.data, main.width, main.height,
                                slice(d, 148, 148 + 1024), h.alphaSize)
            ELSE IF h.compression = 2
            THEN decompressDXT(main.data, main.width, main.height, h.preferredFormat)
            ELSE decompressRAW3(main.data, main.width, main.height)

\* decodeBlpData after the chain walk: the empty-chain check and the dispatch
\* on compression and preferredFormat, on the first level returned
decodeLevels(d, h, levels) ==
    IF Len(levels) = 0 THEN failure("EmptyChain")
    ELSE LET main == levels[1]
         IN IF h.compression = 1
            THEN decompressRAW1(main.data, main.width, main.height,
                                slice(d, 148, 148 + 1024), h.alphaSize)
            ELSE IF h.compression = 2
            THEN decompressDXT(main.data, main.width, main.height, h.preferredFormat)
            ELSE IF h.compression = 3
            THEN decompressRAW3(main.data, main.width, main.height)
            ELSE failure("UnsupportedCompression")

\* decodeBlpData: parse, walk, dispatch; the first failure is the result
decodeBlpData(d) ==
    LET hd == parseBlpHeader(d)
    IN IF hd.error # "none" THEN failure(hd.error)
       ELSE LET mm == extractMipmaps(d, hd.h)
            IN IF mm.error # "none" THEN failure(mm.error)
               ELSE decodeLevels(d, hd.h, mm.levels)

\* decodeBlpData, from the empty-chain check on
Dispatch ==
    /\ pc = "walked"
    /\ result' = decodeLevels(data, header.h, mipmaps.levels)
    /\ pc' = IF result'.error = "none" THEN "decoded" ELSE "failed"
    /\ UNCHANGED <<data, header, mipmaps, image, opts, payload, description>>

\* files for the decoder: a header, then n arbitrary bytes; the base level
\* in slot s (none when s = 16) and a second level two slots further
DecoderInputs ==
    { HeaderBytes(MAGIC,
          [NoHeader EXCEPT !.version = 1, !.compression = c, !.alphaSize = a,
                           !.preferredFormat = f, !.width = w, !.height = hh,
                           !.mipOffsets = Table2(s, 150, s + 2, 148),
                           !.mipSizes = Table2(s, n - 2, s + 2, z)])
      \o Ramp(n) :
        c \in 0..4, a \in {0, 1, 8}, f \in {0, 1, 2, 7}, w \in {0, 1, 4, MaxDim},
        hh \in {1, 3}, s \in {0, 1, 16}, n \in {10, 40}, z \in {0, 8, 41} }

InitDecode ==
    /\ pc = "start"
    /\ data \in DecoderInputs
    /\ header = NoParse
    /\ mipmaps = NoChain
    /\ image = NoImage
    /\ opts = NoOpts
    /\ payload = <<>>
    /\ result = NoImage
    /\ description = NoDescription

NextDecode == ParseBlpHeader \/ ExtractMipmaps \/ Dispatch

SpecDecode == InitDecode /\ [][NextDecode]_vars

(***************************************************************************)
(* C5: the dispatcher.                                                     *)
(***************************************************************************)
Dispatched == result.error # "unset"

\* the bytes of the first populated slot of the header in hand
BaseData ==
    LET s == PopulatedFrom(0)[1]
    IN slice(data, header.h.mipOffsets[s],
             header.h.mipOffsets[s] + header.h.mipSizes[s])

\* C5: with no populated slot decode fails with the empty-chain error;
\* otherwise the first populated slot is decoded by the codec of the
\* compression kind (1 palette, 2 block, 3 truecolor, else unsupported), the
\* block variant being DXT3 for hint 1, DXT5 for hint 7 and DXT1 for every
\* other hint; a decoded image has the level's dimensions and
\* width*height*4 bytes.
C5_Dispatch ==
    Dispatched =>
        LET h == header.h
            w == mipmaps.levels[1].width
            hh == mipmaps.levels[1].height
        IN IF PopulatedFrom(0) = <<>> THEN result.error = "EmptyChain"
           ELSE /\ mipmaps.levels[1].offset = h.mipOffsets[PopulatedFrom(0)[1]]
                /\ h.compression \notin {1, 2, 3}
                       => result.error = "UnsupportedCompression"
                /\ h.compression = 1
                       => result.pixels = decompressRAW1(BaseData, w, hh,
                              slice(data, 148, 1172), h.alphaSize).pixels
                /\ (h.compression = 2 /\ h.preferredFormat = 1)
                       => result.pixels = decompressDXT3(BaseData, w, hh).pixels
                /\ (h.compression = 2 /\ h.preferredFormat = 7)
                       => result.pixels = decompressDXT5(BaseData, w, hh).pixels
                /\ (h.compression = 2 /\ h.preferredFormat \notin {1, 7})
                       => result.pixels = decompressDXT1(BaseData, w, hh).pixels
                /\ h.compression = 3
                       => result.pixels = decompressRAW3(BaseData, w, hh).pixels
                /\ result.error = "none"
                       => /\ result.width = w
                          /\ result.height = hh
                          /\ Len(result.pixels) = w * hh * 4

\* the base level sits in slot 1, a second level follows, hint 2 decodes as
\* DXT1
C5_Witness ==
    /\ Dispatched
    /\ result.error = "none"
    /\ header.h.compression = 2
    /\ header.h.preferredFormat = 2
    /\ header.h.mipOffsets[0] = 0
    /\ Len(mipmaps.levels) = 2
    /\ result.width = 2
    /\ Len(result.pixels) = 8

(***************************************************************************)
(* Resizing to power-of-two dimensions.                                    *)
(***************************************************************************)
RECURSIVE nextFrom(_, _)
nextFrom(power, n) == IF power < n THEN nextFrom(power * 2, n) ELSE power

nextPowerOf2(n) == IF n <= 0 THEN 1 ELSE nextFrom(1, n)

RECURSIVE prevFrom(_, _)
prevFrom(power, n) == IF power * 2 <= n THEN prevFrom(power * 2, n) ELSE power

prevPowerOf2(n) == IF n <= 0 THEN 1 ELSE prevFrom(1, n)

closestPowerOf2(n) ==
    IF n <= 0 THEN 1
    ELSE IF nextPowerOf2(n) - n < n - prevPowerOf2(n) THEN nextPowerOf2(n)
    ELSE prevPowerOf2(n)

calculateOptimalDimensions(width, height, preferLarger) ==
    IF preferLarger
    THEN [width |-> nextPowerOf2(width), height |-> nextPowerOf2(height)]
    ELSE [width |-> closestPowerOf2(width), height |-> closestPowerOf2(height)]

\* the test (n & (n - 1)) === 0 on a non-negative n: true of 0 as well
isPowerOf2(n) == n = 0 \/ nextPowerOf2(n) = n

\* stretchImage: nearest-neighbour sampling
stretchImage(img, targetWidth, targetHeight) ==
    [error |-> "none", width |-> targetWidth, height |-> targetHeight,
     pixels |-> Tup([k \in 1..(targetWidth * targetHeight * 4) |->
        LET q == (k - 1) \div 4
            srcX == ((q % targetWidth) * img.width) \div targetWidth
            srcY == ((q \div targetWidth) * img.height) \div targetHeight
        IN Rd(img.pixels, (srcY * img.width + srcX) * 4 + ((k - 1) % 4))])]

\* padImage: fill, then copy the source row by row at the offset; a write
\* outside the target buffer is dropped, a later write to the same place wins
padImage(img, targetWidth, targetHeight, center, fillColor) ==
    LET offsetX == IF center THEN (targetWidth - img.width) \div 2 ELSE 0
        offsetY == IF center THEN (targetHeight - img.height) \div 2 ELSE 0
        dst(p) == ((p \div img.width) + offsetY) * targetWidth
                  + (p % img.width) + offsetX
        writers(q) == {p \in 0..(img.width * img.height - 1) : dst(p) = q}
    IN [error |-> "none", width |-> targetWidth, height |-> targetHeight,
        pixels |-> Tup([k \in 1..(targetWidth * targetHeight * 4) |->
            LET q == (k - 1) \div 4
            IN IF writers(q) = {} THEN fillColor[((k - 1) % 4) + 1]
               ELSE Rd(img.pixels, SetMax(writers(q)) * 4 + ((k - 1) % 4))])]

\* resizeImage on its options (width, height, mode, maintainAspectRatio,
\* fillColor); the two aspect ratios are compared, and the quotient rounded,
\* as fractions
resizeImageWith(img, o) ==
    IF ~isPowerOf2(o.width) \/ ~isPowerOf2(o.height)
    THEN failure("TargetNotPowerOf2")
    ELSE IF o.mode = "force" THEN stretchImage(img, o.width, o.height)
    ELSE IF o.mode \in {"pad", "pad-center"}
    THEN IF o.maintainAspectRatio
         THEN LET wider == img.width * o.height > o.width * img.height
                  finalWidth == IF wider THEN o.width
                                ELSE Round(o.height * img.width, img.height)
                  finalHeight == IF wider THEN Round(o.width * img.height, img.width)
                                 ELSE o.height
              IN padImage(img, closestPowerOf2(finalWidth),
                          closestPowerOf2(finalHeight),
                          o.mode = "pad-center", o.fillColor)
         ELSE padImage(img, o.width, o.height, o.mode = "pad-center", o.fillColor)
    ELSE failure("UnsupportedResizeMode")

\* resizeImage with maintainAspectRatio at its default (true)
resizeImage(img, targetWidth, targetHeight, mode, fillColor) ==
    resizeImageWith(img, [width |-> targetWidth, height |-> targetHeight,
                          mode |-> mode, maintainAspectRatio |-> TRUE,
                          fillColor |-> fillColor])

autoResizeToPowerOf2(img, mode, preferLarger, fillColor) ==
    LET optimalDims == calculateOptimalDimensions(img.width, img.height, preferLarger)
    IN IF isPowerOf2(img.width) /\ isPowerOf2(img.height) THEN img
       ELSE resizeImage(img, optimalDims.width, optimalDims.height, mode, fillColor)

(***************************************************************************)
(* Container builder.                                                      *)
(***************************************************************************)
\* one halving step of generateMipmaps: 2x2 box filter, clipped at the edges
halve(img) ==
    LET newWidth == Max(1, img.width \div 2)
        newHeight == Max(1, img.height \div 2)
        inside(x, y) == x < img.width /\ y < img.height
        at(x, y, c) == IF inside(x, y)
                       THEN img.pixels[(y * img.width + x) * 4 + c + 1] ELSE 0
        one(x, y) == IF inside(x, y) THEN 1 ELSE 0
    IN [error |-> "none", width |-> newWidth, height |-> newHeight,
        pixels |-> Tup([k \in 1..(newWidth * newHeight * 4) |->
            LET q == (k - 1) \div 4
                c == (k - 1) % 4
                x == 2 * (q % newWidth)
                y == 2 * (q \div newWidth)
            IN Round(at(x, y, c) + at(x + 1, y, c) + at(x, y + 1, c)
                         + at(x + 1, y + 1, c),
                     one(x, y) + one(x + 1, y) + one(x, y + 1)
                         + one(x + 1, y + 1))])]

RECURSIVE generateMipmaps(_)
generateMipmaps(img) ==
    IF img.width > 1 /\ img.height > 1
    THEN <<img>> \o generateMipmaps(halve(img))
    ELSE <<img>>

selectVariant_KeepHint(pixels, o) ==
    LET alphaValues == {pixels[4 * i] : i \in 1..(Len(pixels) \div 4)}
        hasPartialAlpha == \E a \in alphaValues : a > 0 /\ a < 255
        isBinaryAlpha == alphaValues = {0, 255}
        variant(a, f) == [compression |-> DXT, alphaSize |-> a, preferredFormat |-> f]
    IN IF o.compression # DXT
       THEN [compression |-> o.compression, alphaSize |-> o.alphaSize,
             preferredFormat |-> o.preferredFormat]
       ELSE IF o.dxtFormat = DXT3 THEN variant(8, DXT3)
       ELSE IF o.dxtFormat = DXT5 THEN variant(8, DXT5)
       ELSE IF hasPartialAlpha
       THEN (IF o.preferredFormat = DXT3 THEN variant(8, DXT3) ELSE variant(8, DXT5))
       ELSE IF isBinaryAlpha THEN variant(1, o.preferredFormat)
       ELSE variant(0, DXT1)

selectVariant_CallerDepth(pixels, o) ==
    LET alphaValues == {pixels[4 * i] : i \in 1..(Len(pixels) \div 4)}
        hasPartialAlpha == \E a \in alphaValues : a > 0 /\ a < 255
        isBinaryAlpha == alphaValues = {0, 255}
        variant(a, f) == [compression |-> DXT, alphaSize |-> a, preferredFormat |-> f]
    IN IF o.compression # DXT
       THEN [compression |-> o.compression, alphaSize |-> o.alphaSize,
             preferredFormat |-> o.preferredFormat]
       ELSE IF o.dxtFormat = DXT3 THEN variant(8, DXT3)
       ELSE IF o.dxtFormat = DXT5 THEN variant(8, DXT5)
       ELSE IF hasPartialAlpha
       THEN (IF o.preferredFormat = DXT3 THEN variant(8, DXT3) ELSE variant(8, DXT5))
       ELSE IF isBinaryAlpha THEN variant(1, DXT1)
       ELSE variant(o.alphaSize, DXT1)

\* encodeToBLP's choice of compression, alpha depth and format hint
selectVariant(pixels, o) ==
    LET alphaValues == {pixels[4 * i] : i \in 1..(Len(pixels) \div 4)}
        hasAlpha == 0 \in alphaValues \/ 255 \in alphaValues
        hasPartialAlpha == \E a \in alphaValues : a > 0 /\ a < 255
        isBinaryAlpha == Cardinality(alphaValues) <= 2
                         /\ 0 \in alphaValues /\ 255 \in alphaValues
        variant(a, f) == [compression |-> DXT, alphaSize |-> a, preferredFormat |-> f]
    IN IF o.compression # DXT
       THEN [compression |-> o.compression, alphaSize |-> o.alphaSize,
             preferredFormat |-> o.preferredFormat]
       ELSE IF o.dxtFormat = DXT3 THEN variant(8, DXT3)
       ELSE IF o.dxtFormat = DXT5 THEN variant(8, DXT5)
       ELSE IF hasPartialAlpha
       THEN (IF o.preferredFormat = DXT3 THEN variant(8, DXT3) ELSE variant(8, DXT5))
       ELSE IF hasAlpha /\ isBinaryAlpha THEN variant(1, DXT1)
       ELSE variant(0, DXT1)

\* the payload of one level
compressLevel(mipmap, v) ==
    IF v.compression = PALETTE THEN compressRAW1(mipmap, v.alphaSize)
    ELSE IF v.compression = DXT THEN compressDXT(mipmap, v.preferredFormat)
    ELSE compressRAW3(mipmap)

RECURSIVE joined(_, _)
joined(parts, n) == IF n = 0 THEN <<>> ELSE joined(parts, n - 1) \o parts[n]

containerHeader_FixedBase(img, compressedMipmaps, v, hasMips) ==
    LET headerAndPaletteSize == HEADER_SIZE
        used(i) == i < Len(compressedMipmaps)
    IN [version |-> 1, compression |-> v.compression % 256,
        alphaSize |-> v.alphaSize % 256,
        preferredFormat |-> v.preferredFormat % 256,
        hasMips |-> IF hasMips THEN 1 ELSE 0,
        width |-> img.width, height |-> img.height,
        mipOffsets |-> [i \in 0..(NUM_SLOTS - 1) |->
            IF used(i)
            THEN headerAndPaletteSize + Len(joined(compressedMipmaps, i))
            ELSE 0],
        mipSizes |-> [i \in 0..(NUM_SLOTS - 1) |->
            IF used(i) THEN Len(compressedMipmaps[i + 1]) ELSE 0]]

containerHeader_SwappedDims(img, compressedMipmaps, v, hasMips) ==
    LET headerAndPaletteSize ==
            HEADER_SIZE + (IF v.compression = PALETTE THEN 1024 ELSE 0)
        used(i) == i < Len(compressedMipmaps)
    IN [version |-> 1, compression |-> v.compression % 256,
        alphaSize |-> v.alphaSize % 256,
        preferredFormat |-> v.preferredFormat % 256,
        hasMips |-> IF hasMips THEN 1 ELSE 0,
        width |-> img.height, height |-> img.width,
        mipOffsets |-> [i \in 0..(NUM_SLOTS - 1) |->
            IF used(i)
            THEN headerAndPaletteSize + Len(joined(compressedMipmaps, i))
            ELSE 0],
        mipSizes |-> [i \in 0..(NUM_SLOTS - 1) |->
            IF used(i) THEN Len(compressedMipmaps[i + 1]) ELSE 0]]

\* the header fields encodeToBLP writes: version 1, the variant, the image's
\* dimensions, and one offset and size per payload for the first 16
containerHeader(img, compressedMipmaps, v, hasMips) ==
    LET headerAndPaletteSize ==
            HEADER_SIZE + (IF v.compression = PALETTE THEN 1024 ELSE 0)
        used(i) == i < Len(compressedMipmaps)
    IN [version |-> 1, compression |-> v.compression % 256,
        alphaSize |-> v.alphaSize % 256,
        preferredFormat |-> v.preferredFormat % 256,
        hasMips |-> IF hasMips THEN 1 ELSE 0,
        width |-> img.width, height |-> img.height,
        mipOffsets |-> [i \in 0..(NUM_SLOTS - 1) |->
            IF used(i)
            THEN headerAndPaletteSize + Len(joined(compressedMipmaps, i))
            ELSE 0],
        mipSizes |-> [i \in 0..(NUM_SLOTS - 1) |->
            IF used(i) THEN Len(compressedMipmaps[i + 1]) ELSE 0]]

\* encodeToBLP from the payloads on: header, slot tables, palette, payloads
writeContainer(img, levels, v, hasMips) ==
    LET compressedMipmaps == Tup([i \in 1..Len(levels) |-> compressLevel(levels[i], v)])
        h == containerHeader(img, compressedMipmaps, v, hasMips)
    IN HeaderBytes(MAGIC, h)
       \o (IF v.compression = PALETTE THEN rgbaPalette(img.pixels) ELSE <<>>)
       \o joined(compressedMipmaps, Len(compressedMipmaps))

\* encodeToBLP: size check or resize, level list, variant, then the bytes
encodeToBLP(img, o) ==
    LET sized == isPowerOf2(img.width) /\ isPowerOf2(img.height)
        resized == IF sized THEN img
                   ELSE autoResizeToPowerOf2(img, o.resizeMode, o.preferLargerResize,
                                             o.fillColor)
        v == selectVariant(resized.pixels, o)
    IN IF ~sized /\ ~o.autoResize THEN [error |-> "NotPowerOf2", bytes |-> <<>>]
       ELSE IF resized.error # "none" THEN [error |-> resized.error, bytes |-> <<>>]
       ELSE IF v.compression \notin {PALETTE, DXT, ARGB8888}
       THEN [error |-> "UnsupportedCompression", bytes |-> <<>>]
       ELSE [error |-> "none",
             bytes |-> writeContainer(resized,
                          IF o.generateMipmaps THEN generateMipmaps(resized)
                          ELSE <<resized>>,
                          v, o.generateMipmaps)]

\* decodeBlpData on the file in hand
DecodeContainer ==
    /\ pc = "file"
    /\ image' = decodeBlpData(data)
    /\ pc' = IF image'.error = "none" THEN "opened" ELSE "failed"
    /\ UNCHANGED <<data, header, mipmaps, opts, payload, result, description>>

\* encodeToBLP on the decoded image
EncodeToBLP ==
    /\ pc = "opened"
    /\ LET built == encodeToBLP(image, opts)
       IN /\ payload' = built.bytes
          /\ pc' = IF built.error = "none" THEN "rebuilt" ELSE "rejected"
    /\ UNCHANGED <<data, header, mipmaps, image, opts, result, description>>

\* decodeBlpData on the rebuilt file
DecodeRebuilt ==
    /\ pc = "rebuilt"
    /\ result' = decodeBlpData(payload)
    /\ pc' = IF result'.error = "none" THEN "reopened" ELSE "lost"
    /\ UNCHANGED <<data, header, mipmaps, image, opts, payload, description>>

\* the variants a container can carry
Variants ==
    {[compression |-> PALETTE, alphaSize |-> a, preferredFormat |-> 0] : a \in {0, 1, 4, 8}}
    \cup {[compression |-> DXT, alphaSize |-> 8, preferredFormat |-> f] :
              f \in {DXT1, DXT3, DXT5}}
    \cup {[compression |-> ARGB8888, alphaSize |-> 8, preferredFormat |-> 0]}

\* well-formed files of every variant around images of any size from 1x1 up,
\* with or without a level chain, and the builder options that match them
InitRoundTrip ==
    \E w \in 1..MaxDim, hh \in 1..MaxDim, v \in Variants, mips \in BOOLEAN,
       resize \in BOOLEAN, strict \in BOOLEAN,
       colors \in {Tints, <<Tints[1], Tints[3]>>} :
        LET img == PatternImage(w, hh, colors, 1, 2, 0)
        IN /\ pc = "file"
           /\ data = writeContainer(img, IF mips THEN generateMipmaps(img) ELSE <<img>>,
                                    v, mips)
           /\ opts = [DEFAULT_OPTIONS EXCEPT
                         !.compression = v.compression,
                         !.alphaSize = v.alphaSize,
                         !.preferredFormat = v.preferredFormat,
                         !.dxtFormat = IF strict THEN v.preferredFormat ELSE DXT1,
                         !.generateMipmaps = mips,
                         !.autoResize = resize]
           /\ header = NoParse
           /\ mipmaps = NoChain
           /\ image = NoImage
           /\ payload = <<>>
           /\ result = NoImage
           /\ description = NoDescription

NextRoundTrip == DecodeContainer \/ EncodeToBLP \/ DecodeRebuilt

SpecRoundTrip == InitRoundTrip /\ [][NextRoundTrip]_vars

(***************************************************************************)
(* C6: decode, rebuild, decode.                                            *)
(***************************************************************************)
\* the rebuild of a decoded file has ended, one way or the other
RoundTripEnded == pc \in {"rejected", "lost", "reopened"}

RoundTripKeptShape ==
    /\ pc = "reopened"
    /\ result.width = image.width
    /\ result.height = image.height
    /\ Len(result.pixels) = Len(image.pixels)

\* C6 as stated: for every well-formed file, decoding it, rebuilding with
\* matching options and decoding again gives the first decode's width,
\* height and pixel count.
C6_RoundTripDimensions == RoundTripEnded => RoundTripKeptShape

\* C6 for power-of-two sizes: when the file's base level has a width and a
\* height that are powers of two (1 included), decoding it, rebuilding with
\* matching options and decoding again succeeds and gives the same width,
\* height and pixel count.
C6_RoundTripPowerOfTwo ==
    (/\ RoundTripEnded
     /\ image.width >= 1 /\ isPowerOf2(image.width)
     /\ image.height >= 1 /\ isPowerOf2(image.height))
        => RoundTripKeptShape

\* a 4x2 palette file with a level chain comes back 4x2
C6_Witness ==
    /\ pc = "reopened"
    /\ opts.compression = PALETTE
    /\ opts.generateMipmaps
    /\ image.width = 4
    /\ image.height = 2
    /\ result.width = 4
    /\ result.height = 2

(***************************************************************************)
(* C7..C10: the codecs.                                                    *)
(***************************************************************************)
Compressed == pc \in {"compressed", "decoded"}

Decoded == pc = "decoded"

\* ceil(n / 4), by cases
Quarters(n) == IF n % 4 = 0 THEN n \div 4 ELSE (n \div 4) + 1

SameShape(a, b) ==
    /\ a.width = b.width
    /\ a.height = b.height
    /\ Len(a.pixels) = b.width * b.height * 4

\* C7: compressDXT1 returns ceil(w/4)*ceil(h/4)*8 bytes, compressDXT3 and
\* compressDXT5 ceil(w/4)*ceil(h/4)*16, and decompressing with the same w and
\* h returns a w by h image of w*h*4 bytes.
C7_BlockLengths ==
    /\ Compressed =>
           Len(payload) = Quarters(image.width) * Quarters(image.height)
                          * (IF opts.preferredFormat = DXT1 THEN 8 ELSE 16)
    /\ Decoded => SameShape(result, image)

C7_Witness ==
    /\ Decoded
    /\ opts.preferredFormat = DXT5
    /\ image.width = 5
    /\ image.height = 3
    /\ Len(payload) = 32
    /\ Len(result.pixels) = 60

AlphaOf(img, i) == img.pixels[4 * i + 4]

PixelCount(img) == img.width * img.height

\* C8: at depth 1 every pixel decodes to alpha 255 when its input alpha is
\* above 127 and to 0 otherwise, whatever the other pixels of its byte hold.
C8_BinaryAlpha ==
    (Decoded /\ opts.alphaSize = 1) =>
        \A i \in 0..(PixelCount(image) - 1) :
            AlphaOf(result, i) = IF AlphaOf(image, i) > 127 THEN 255 ELSE 0

\* ten pixels, so a second alpha byte with two pixels; both sides of the
\* threshold in the first byte
C8_Witness ==
    /\ Decoded
    /\ opts.alphaSize = 1
    /\ PixelCount(image) = 10
    /\ AlphaOf(image, 0) = 127
    /\ AlphaOf(image, 1) = 128
    /\ AlphaOf(image, 9) = 128
    /\ AlphaOf(result, 0) = 0
    /\ AlphaOf(result, 1) = 255
    /\ AlphaOf(result, 9) = 255

\* C9: compressRAW1 returns n + p bytes, p = n, ceil(n/2), ceil(n/8), 0 for
\* depth 8, 4, 1, 0; decoding keeps width, height and the buffer length;
\* depth 8 reproduces every alpha and depth 0 decodes every alpha as 255.
C9_PlaneSizes ==
    LET n == PixelCount(image)
        d == opts.alphaSize
    IN /\ Compressed =>
              Len(payload) = n + (IF d = 8 THEN n
                                  ELSE IF d = 4 THEN (n \div 2) + (n % 2)
                                  ELSE IF d = 1 THEN (n + 7) \div 8
                                  ELSE 0)
       /\ Decoded => SameShape(result, image)
       /\ (Decoded /\ d = 8) =>
              \A i \in 0..(n - 1) : AlphaOf(result, i) = AlphaOf(image, i)
       /\ (Decoded /\ d = 0) =>
              \A i \in 0..(n - 1) : AlphaOf(result, i) = 255

C9_Witness ==
    /\ Decoded
    /\ opts.alphaSize = 4
    /\ PixelCount(image) = 5
    /\ Len(payload) = 8

\* C10: a solid opaque image, block-encoded and decoded, has red and blue
\* within 8 and green within 4 of the input at every texel, and alpha 255.
C10_SolidColourError ==
    Decoded =>
        \A i \in 0..(PixelCount(image) - 1) :
            /\ Abs(result.pixels[4 * i + 1] - image.pixels[1]) <= 8
            /\ Abs(result.pixels[4 * i + 2] - image.pixels[2]) <= 4
            /\ Abs(result.pixels[4 * i + 3] - image.pixels[3]) <= 8
            /\ result.pixels[4 * i + 4] = 255

\* the worst red case, 238, decoded 8 away
C10_Witness ==
    /\ Decoded
    /\ image.pixels[1] = 238
    /\ result.pixels[1] = 230
    /\ result.pixels[4] = 255

(***************************************************************************)
(* The builder on its own: build a file, then parse and walk it.           *)
(***************************************************************************)
\* encodeToBLP on the image in hand; the bytes become the file
EncodeImage ==
    /\ pc = "source"
    /\ LET built == encodeToBLP(image, opts)
       IN /\ data' = built.bytes
          /\ pc' = IF built.error = "none" THEN "start" ELSE built.error
    /\ UNCHANGED <<header, mipmaps, image, opts, payload, result, description>>

\* alpha 255 only; 0 and 255; a partial alpha; 0 only
AlphaMixes ==
    { << <<255, 0, 0, 255>>, <<0, 255, 0, 255>> >>,
      << <<255, 0, 0, 255>>, <<10, 20, 200, 0>> >>,
      << <<255, 0, 0, 255>>, <<0, 255, 0, 128>>, <<10, 20, 200, 0>> >>,
      << <<255, 0, 0, 0>>, <<0, 255, 0, 0>> >> }

\* option sets: each compression kind, an unsupported one, and for block
\* compression every forced variant and two caller hints
BuilderOptions ==
    {[DEFAULT_OPTIONS EXCEPT !.compression = ca[1], !.alphaSize = ca[2]] :
        ca \in {<<0, 8>>, <<PALETTE, 1>>, <<PALETTE, 8>>, <<ARGB8888, 8>>}}
    \cup {[DEFAULT_OPTIONS EXCEPT !.alphaSize = a, !.preferredFormat = fx[1],
                                  !.dxtFormat = fx[2]] :
        a \in {0, 8}, fx \in {<<DXT1, DXT1>>, <<DXT5, DXT1>>}}
    \cup {[DEFAULT_OPTIONS EXCEPT !.preferredFormat = DXT3],
          [DEFAULT_OPTIONS EXCEPT !.dxtFormat = DXT3],
          [DEFAULT_OPTIONS EXCEPT !.dxtFormat = DXT5]}

InitEncode ==
    \E w \in 0..MaxDim, hh \in 0..MaxDim, colors \in AlphaMixes, o \in BuilderOptions,
       mips \in BOOLEAN, resize \in BOOLEAN, mode \in {"pad-center", "force"} :
        /\ (isPowerOf2(w) /\ isPowerOf2(hh)) \/ ~resize => mode = "pad-center"
        /\ pc = "source"
        /\ image = PatternImage(w, hh, colors, 1, 2, 0)
        /\ opts = [o EXCEPT !.generateMipmaps = mips, !.autoResize = resize,
                            !.resizeMode = mode]
        /\ data = <<>>
        /\ header = NoParse
        /\ mipmaps = NoChain
        /\ payload = <<>>
        /\ result = NoImage
        /\ description = NoDescription

NextEncode == EncodeImage \/ ParseBlpHeader \/ ExtractMipmaps

SpecEncode == InitEncode /\ [][NextEncode]_vars

(***************************************************************************)
(* C11..C13, C15, C16: the builder.                                        *)
(***************************************************************************)
\* the alpha values present in an image
AlphaSet(img) == {img.pixels[4 * i] : i \in 1..(Len(img.pixels) \div 4)}

\* n is one of 1, 2, 4, 8, ...
IsPowerOfTwo(n) == \E k \in 0..30 : n = Pow2(k)

RECURSIVE Log2(_)
Log2(n) == IF n <= 1 THEN 0 ELSE 1 + Log2(n \div 2)

\* the image the builder compresses: the one in hand, resized when needed
Sized ==
    IF isPowerOf2(image.width) /\ isPowerOf2(image.height) THEN image
    ELSE autoResizeToPowerOf2(image, opts.resizeMode, opts.preferLargerResize,
                              opts.fillColor)

\* the builder was asked for block compression without a forced variant
AutoVariant == opts.compression = DXT /\ opts.dxtFormat \notin {DXT3, DXT5}

BuildFailed == pc \in {"NotPowerOf2", "UnsupportedCompression", "UnsupportedResizeMode",
                       "TargetNotPowerOf2"}

C11Case ==
    /\ AutoVariant
    /\ IsPowerOfTwo(image.width)
    /\ IsPowerOfTwo(image.height)
    /\ AlphaSet(image) = {0, 255}

\* C11: with block compression, no forced variant and a power-of-two image
\* whose alpha values are exactly 0 and 255, the build succeeds and the
\* payload recorded in slot 0 is the DXT1 output for the image, of length
\* ceil(w/4) * ceil(h/4) * 8.
C11_BinaryAlphaIsDxt1 ==
    C11Case =>
        /\ ~BuildFailed
        /\ Walked =>
            /\ mipmaps.error = "none"
            /\ header.h.mipSizes[0] = Ceil(image.width, 4) * Ceil(image.height, 4) * 8
            /\ slice(data, header.h.mipOffsets[0],
                     header.h.mipOffsets[0] + header.h.mipSizes[0])
                   = compressDXT1(image)
            /\ mipmaps.levels[1].data = compressDXT1(image)

\* the caller's hint asks for DXT5, the 4x2 image has alphas 0 and 255: one
\* 8-byte block
C11_Witness ==
    /\ C11Case
    /\ Walked
    /\ opts.preferredFormat = DXT5
    /\ image.width = 4
    /\ image.height = 2
    /\ mipmaps.levels[1].size = 8

C13_PowerOfTwoEnforced ==
    pc # "source" =>
        /\ (~opts.autoResize
            /\ (~IsPowerOfTwo(image.width) \/ ~IsPowerOfTwo(image.height)))
               => (pc = "NotPowerOf2" /\ data = <<>>)
        /\ opts.autoResize
               => /\ pc # "NotPowerOf2"
                  /\ (Parsed /\ header.error = "none")
                         => /\ IsPowerOfTwo(header.h.width)
                            /\ IsPowerOfTwo(header.h.height)

\* C15: with mipmap generation on a power-of-two image the chain has
\* log2(max(w, h)) + 1 levels, level k being max(1, w >> k) x max(1, h >> k),
\* the last one 1x1, and the file carries as many levels.
C15_ChainToOneByOne ==
    (/\ opts.generateMipmaps
     /\ IsPowerOfTwo(image.width)
     /\ IsPowerOfTwo(image.height)
     /\ Walked)
        => LET chain == generateMipmaps(image)
               n == Log2(Max(image.width, image.height)) + 1
           IN /\ Len(chain) = n
              /\ Len(mipmaps.levels) = n
              /\ \A k \in 0..(Len(chain) - 1) :
                    /\ chain[k + 1].width = Max(1, image.width \div Pow2(k))
                    /\ chain[k + 1].height = Max(1, image.height \div Pow2(k))
              /\ chain[Len(chain)].width = 1
              /\ chain[Len(chain)].height = 1

\* the levels the builder compresses
SizedChain == IF opts.generateMipmaps THEN generateMipmaps(Sized) ELSE <<Sized>>

\* C16: a built file of L non-empty levels has offset[0] = 0x94 (plus 1024
\* for palette output), offset[i+1] = offset[i] + size[i], size[i] the length
\* of level i's payload, slots L..15 zero and total length
\* offset[L-1] + size[L-1]; the chain walk succeeds and returns L levels.
C16_GapFreeLayout ==
    (Walked /\ Sized.width >= 1 /\ Sized.height >= 1) =>
        LET h == header.h
            L == Len(SizedChain)
            v == [compression |-> h.compression, alphaSize |-> h.alphaSize,
                  preferredFormat |-> h.preferredFormat]
        IN /\ h.mipOffsets[0] = 148 + (IF h.compression = 1 THEN 1024 ELSE 0)
           /\ \A i \in 0..(L - 2) :
                  h.mipOffsets[i + 1] = h.mipOffsets[i] + h.mipSizes[i]
           /\ \A i \in 0..(L - 1) :
                  /\ h.mipSizes[i] > 0
                  /\ h.mipSizes[i] = Len(compressLevel(SizedChain[i + 1], v))
           /\ \A i \in L..(NUM_SLOTS - 1) : h.mipOffsets[i] = 0 /\ h.mipSizes[i] = 0
           /\ Len(data) = h.mipOffsets[L - 1] + h.mipSizes[L - 1]
           /\ mipmaps.error = "none"
           /\ Len(mipmaps.levels) = L

\* a 4x4 palette file with a chain of three levels: 32, 8 and 2 bytes after
\* the palette block
C16_Witness ==
    /\ Walked
    /\ header.h.compression = 1
    /\ header.h.alphaSize = 8
    /\ image.width = 4
    /\ image.height = 4
    /\ Len(mipmaps.levels) = 3
    /\ header.h.mipOffsets[0] = 1172
    /\ header.h.mipOffsets[2] = 1212
    /\ Len(data) = 1214

(***************************************************************************)
(* The convenience encoders.                                               *)
(***************************************************************************)
\* the options each convenience encoder passes to encodeToBLP
DXT1Options(generate) ==
    [DEFAULT_OPTIONS EXCEPT !.compression = DXT, !.alphaSize = 0, !.preferredFormat = 0,
                            !.generateMipmaps = generate, !.dxtFormat = DXT1]

DXT3Options(generate) ==
    [DEFAULT_OPTIONS EXCEPT !.compression = DXT, !.alphaSize = 8, !.preferredFormat = 1,
                            !.generateMipmaps = generate, !.dxtFormat = DXT3]

DXT5Options(generate) ==
    [DEFAULT_OPTIONS EXCEPT !.compression = DXT, !.alphaSize = 8, !.preferredFormat = 7,
                            !.generateMipmaps = generate, !.dxtFormat = DXT5]

encodeToDXT1BLP(img, generate) == encodeToBLP(img, DXT1Options(generate))

encodeToDXT3BLP(img, generate) == encodeToBLP(img, DXT3Options(generate))

encodeToDXT5BLP(img, generate) == encodeToBLP(img, DXT5Options(generate))

\* one call of a convenience encoder: the options it passed and the file
EncodeToDXT1BLP ==
    /\ pc = "source"
    /\ \E g \in BOOLEAN :
        LET built == encodeToDXT1BLP(image, g)
        IN /\ opts' = DXT1Options(g)
           /\ data' = built.bytes
           /\ pc' = IF built.error = "none" THEN "start" ELSE built.error
    /\ UNCHANGED <<header, mipmaps, image, payload, result, description>>

EncodeToDXT3BLP ==
    /\ pc = "source"
    /\ \E g \in BOOLEAN :
        LET built == encodeToDXT3BLP(image, g)
        IN /\ opts' = DXT3Options(g)
           /\ data' = built.bytes
           /\ pc' = IF built.error = "none" THEN "start" ELSE built.error
    /\ UNCHANGED <<header, mipmaps, image, payload, result, description>>

EncodeToDXT5BLP ==
    /\ pc = "source"
    /\ \E g \in BOOLEAN :
        LET built == encodeToDXT5BLP(image, g)
        IN /\ opts' = DXT5Options(g)
           /\ data' = built.bytes
           /\ pc' = IF built.error = "none" THEN "start" ELSE built.error
    /\ UNCHANGED <<header, mipmaps, image, payload, result, description>>

InitConvenience ==
    \E w \in 1..MaxDim, hh \in 1..MaxDim, colors \in AlphaMixes :
        /\ pc = "source"
        /\ image = PatternImage(w, hh, colors, 1, 2, 0)
        /\ opts = NoOpts
        /\ data = <<>>
        /\ header = NoParse
        /\ mipmaps = NoChain
        /\ payload = <<>>
        /\ result = NoImage
        /\ description = NoDescription

NextConvenience ==
    \/ EncodeToDXT1BLP
    \/ EncodeToDXT3BLP
    \/ EncodeToDXT5BLP
    \/ ParseBlpHeader
    \/ ExtractMipmaps
    \/ Dispatch

SpecConvenience == InitConvenience /\ [][NextConvenience]_vars

(***************************************************************************)
(* C14: the convenience encoders.                                          *)
(***************************************************************************)
\* C14: whatever the image's alpha content, encodeToDXT1BLP writes
\* compression 2 and a hint that decodes as DXT1, with 8-byte blocks;
\* encodeToDXT3BLP writes hint 1 and encodeToDXT5BLP hint 7.
C14_NamedVariant ==
    (pc # "source" /\ Parsed) =>
        /\ header.error = "none"
        /\ header.h.compression = 2
        /\ opts.dxtFormat = DXT1
               => /\ header.h.preferredFormat \notin {1, 7}
                  /\ header.h.mipSizes[0]
                         = Ceil(Sized.width, 4) * Ceil(Sized.height, 4) * 8
        /\ opts.dxtFormat = DXT3 => header.h.preferredFormat = 1
        /\ opts.dxtFormat = DXT5 => header.h.preferredFormat = 7

(***************************************************************************)
(* The truecolor codec on its own.                                         *)
(***************************************************************************)
CompressRAW3 ==
    /\ pc = "image"
    /\ opts.compression = ARGB8888
    /\ payload' = compressRAW3(image)
    /\ pc' = "compressed"
    /\ UNCHANGED <<data, header, mipmaps, image, opts, result, description>>

DecompressRAW3 ==
    /\ pc = "compressed"
    /\ opts.compression = ARGB8888
    /\ result' = decompressRAW3(payload, image.width, image.height)
    /\ pc' = "decoded"
    /\ UNCHANGED <<data, header, mipmaps, image, opts, payload, description>>

InitRaw3 ==
    \E w \in 0..MaxDim, hh \in 0..MaxDim, a \in 0..2, b \in 0..2, c \in 0..1 :
        InitCodec(PatternImage(w, hh, Tints, a, b, c),
                  [DEFAULT_OPTIONS EXCEPT !.compression = ARGB8888])

NextRaw3 == CompressRAW3 \/ DecompressRAW3

SpecRaw3 == InitRaw3 /\ [][NextRaw3]_vars

(***************************************************************************)
(* C17: the truecolor codec.                                               *)
(***************************************************************************)
\* C17: compressRAW3 returns as many bytes as the image has, bytes 0 and 2
\* of every pixel swapped and bytes 1 and 3 kept; decompressRAW3 of that
\* output gives back the image's pixels byte for byte.
C17_SwapInvolution ==
    /\ Compressed =>
        /\ Len(payload) = Len(image.pixels)
        /\ \A i \in 0..(PixelCount(image) - 1) :
              /\ payload[4 * i + 1] = image.pixels[4 * i + 3]
              /\ payload[4 * i + 2] = image.pixels[4 * i + 2]
              /\ payload[4 * i + 3] = image.pixels[4 * i + 1]
              /\ payload[4 * i + 4] = image.pixels[4 * i + 4]
    /\ Decoded =>
        /\ result.pixels = image.pixels
        /\ result.width = image.width
        /\ result.height = image.height

\* a 3x2 image whose first pixel is R,G,B,A = 255,0,0,255, stored 0,0,255,255
C17_Witness ==
    /\ Decoded
    /\ image.width = 3
    /\ image.height = 2
    /\ SubSeq(image.pixels, 1, 4) = <<255, 0, 0, 255>>
    /\ SubSeq(payload, 1, 4) = <<0, 0, 255, 255>>
    /\ SubSeq(result.pixels, 1, 4) = <<255, 0, 0, 255>>

(***************************************************************************)
(* The header description.                                                 *)
(***************************************************************************)
dxtTypeOf_AlphaDepth(h) ==
    IF h.compression # 2 THEN ""
    ELSE IF h.preferredFormat = 1 THEN "DXT3"
    ELSE IF h.preferredFormat = 7 /\ h.alphaSize = 8 THEN "DXT5"
    ELSE "DXT1"

\* the block variant describeBLPHeader names; empty for other compressions
dxtTypeOf(h) ==
    IF h.compression # 2 THEN ""
    ELSE IF h.preferredFormat = 1 THEN "DXT3"
    ELSE IF h.preferredFormat = 7 THEN "DXT5"
    ELSE "DXT1"

\* "Unknown (n)"
unknown(n) == "Unknown (" \o ToString(n) \o ")"

\* describeBLPHeader: the derived texts and the number of lines joined
describeBLPHeader(d) ==
    LET hd == parseBlpHeader(d)
        h == hd.h
        dxtType == dxtTypeOf(h)
    IN IF hd.error # "none" THEN [NoDescription EXCEPT !.error = hd.error]
       ELSE [error |-> "none",
             compressionDesc |->
                 IF h.compression = 1 THEN "Palettized (RAW1)"
                 ELSE IF h.compression = 2 THEN "DXT-compressed (DXT1/3/5)"
                 ELSE IF h.compression = 3 THEN "Uncompressed (RAW3, A8R8G8B8)"
                 ELSE unknown(h.compression),
             alphaDesc |->
                 IF h.alphaSize = 0 THEN "No alpha channel"
                 ELSE IF h.alphaSize = 1 THEN "1-bit alpha (binary mask)"
                 ELSE IF h.alphaSize = 4 THEN "4-bit alpha (rare)"
                 ELSE IF h.alphaSize = 8 THEN "8-bit alpha (full)"
                 ELSE unknown(h.alphaSize),
             mipDesc |->
                 IF h.hasMips = 0 THEN "Only main image (no mipmaps)"
                 ELSE IF h.hasMips \in {1, 2} THEN "Multiple mipmaps present"
                 ELSE unknown(h.hasMips),
             preferredFormatDesc |->
                 IF h.preferredFormat = 0 THEN "Default/unspecified"
                 ELSE IF h.preferredFormat = 1 THEN "DXT3 (if DXT)"
                 ELSE IF h.preferredFormat = 7 THEN "DXT5 (if DXT)"
                 ELSE ToString(h.preferredFormat),
             dxtType |-> dxtType,
             dxtExplain |->
                 IF dxtType = "DXT3" THEN "(preferredFormat=1, alphaSize=8)"
                 ELSE IF dxtType = "DXT5" THEN "(preferredFormat=7, alphaSize=8)"
                 ELSE IF dxtType = "DXT1"
                 THEN "(preferredFormat=0 or 2, alphaSize=0 or 1)"
                 ELSE "",
             lineCount |-> IF dxtType # "" THEN 12 ELSE 10]

DescribeBLPHeader ==
    /\ description.error = "unset"
    /\ description' = describeBLPHeader(data)
    /\ UNCHANGED <<pc, data, header, mipmaps, image, opts, payload, result>>

\* 4x4 files with 16 payload bytes in slot 0: block compression with every
\* hint, the other kinds with a few, and a file that does not parse
DescribeInputs ==
    { HeaderBytes(MAGIC,
          [NoHeader EXCEPT !.version = 1, !.compression = cf[1], !.alphaSize = a,
                           !.preferredFormat = cf[2], !.hasMips = m,
                           !.width = 4, !.height = 4,
                           !.mipOffsets = Table2(0, 148, 0, 148),
                           !.mipSizes = Table2(0, 16, 0, 16)])
      \o <<255, 0, 17, 34, 51, 68, 85, 102, 0, 248, 31, 0, 27, 228, 177, 78>> :
        cf \in ({2} \X (0..255)) \cup ({0, 1, 3} \X {0, 1, 7}),
        a \in {0, 1, 3, 4, 8, 255}, m \in {0, 1, 3} }
    \cup {<<66, 76, 80, 49>> \o Ramp(8)}

InitDescribe ==
    /\ pc = "start"
    /\ data \in DescribeInputs
    /\ header = NoParse
    /\ mipmaps = NoChain
    /\ image = NoImage
    /\ opts = NoOpts
    /\ payload = <<>>
    /\ result = NoImage
    /\ description = NoDescription

NextDescribe == ParseBlpHeader \/ ExtractMipmaps \/ Dispatch \/ DescribeBLPHeader

SpecDescribe == InitDescribe /\ [][NextDescribe]_vars

(***************************************************************************)
(* C18: description and dispatch agree.                                    *)
(***************************************************************************)
Described == description.error = "none"

\* the three block decoders give three different images on the file's
\* payload, so the decoder that ran can be told from the result
Telling ==
    /\ decompressDXT1(BaseData, 4, 4).pixels # decompressDXT3(BaseData, 4, 4).pixels
    /\ decompressDXT1(BaseData, 4, 4).pixels # decompressDXT5(BaseData, 4, 4).pixels
    /\ decompressDXT3(BaseData, 4, 4).pixels # decompressDXT5(BaseData, 4, 4).pixels

\* C18: for compression 2 the variant the description names is the one whose
\* decoder produced the decoded image, for every hint and alpha depth; for
\* any other compression the description has no variant line.
C18_DescriptionMatchesDispatch ==
    (Described /\ Parsed) =>
        /\ (header.h.compression = 2 /\ Dispatched) =>
              /\ result.error = "none"
              /\ Telling
              /\ description.dxtType \in {"DXT1", "DXT3", "DXT5"}
              /\ description.lineCount = 12
              /\ description.dxtType = "DXT1"
                     => result.pixels = decompressDXT1(BaseData, 4, 4).pixels
              /\ description.dxtType = "DXT3"
                     => result.pixels = decompressDXT3(BaseData, 4, 4).pixels
              /\ description.dxtType = "DXT5"
                     => result.pixels = decompressDXT5(BaseData, 4, 4).pixels
        /\ header.h.compression # 2 =>
              /\ description.dxtType = ""
              /\ description.lineCount = 10

\* hint 7 with alpha depth 0: described and decoded as DXT5
C18_Witness ==
    /\ Described
    /\ Dispatched
    /\ header.h.compression = 2
    /\ header.h.preferredFormat = 7
    /\ header.h.alphaSize = 0
    /\ description.dxtType = "DXT5"
    /\ result.pixels = decompressDXT5(BaseData, 4, 4).pixels

(***************************************************************************)
(* The resize functions on their own.                                      *)
(***************************************************************************)
\* resizeImage with the options in hand
ResizeImage ==
    /\ pc = "resize"
    /\ result' = resizeImageWith(image, opts)
    /\ pc' = IF result'.error = "none" THEN "resized" ELSE "failed"
    /\ UNCHANGED <<data, header, mipmaps, image, opts, payload, description>>

Fills == {<<0, 0, 0, 0>>, <<9, 9, 9, 9>>}

ResizeTargets == {1, 2, 3, 4, 8}

InitResize ==
    \E w \in 1..MaxDim, hh \in 1..MaxDim, tw \in ResizeTargets, th \in ResizeTargets,
       mode \in {"force", "pad", "pad-center"}, keep \in BOOLEAN, fill \in Fills :
        /\ pc = "resize"
        /\ image = PatternImage(w, hh, Tints, 1, 2, 0)
        /\ opts = [width |-> tw, height |-> th, mode |-> mode,
                   maintainAspectRatio |-> keep, fillColor |-> fill]
        /\ data = <<>>
        /\ header = NoParse
        /\ mipmaps = NoChain
        /\ payload = <<>>
        /\ result = NoImage
        /\ description = NoDescription

SpecResize == InitResize /\ [][ResizeImage]_vars

\* autoResizeToPowerOf2 with the builder's resize options
AutoResizeToPowerOf2 ==
    /\ pc = "resize"
    /\ result' = autoResizeToPowerOf2(image, opts.resizeMode, opts.preferLargerResize,
                                      opts.fillColor)
    /\ pc' = IF result'.error = "none" THEN "resized" ELSE "failed"
    /\ UNCHANGED <<data, header, mipmaps, image, opts, payload, description>>

InitAutoResize ==
    \E w \in 1..MaxDim, hh \in 1..MaxDim, mode \in {"force", "pad", "pad-center"},
       larger \in BOOLEAN, fill \in Fills, b \in 1..2 :
        /\ pc = "resize"
        /\ image = PatternImage(w, hh, Tints, 1, b, 0)
        /\ opts = [DEFAULT_OPTIONS EXCEPT !.resizeMode = mode,
                                          !.preferLargerResize = larger,
                                          !.fillColor = fill]
        /\ data = <<>>
        /\ header = NoParse
        /\ mipmaps = NoChain
        /\ payload = <<>>
        /\ result = NoImage
        /\ description = NoDescription

SpecAutoResize == InitAutoResize /\ [][AutoResizeToPowerOf2]_vars

(***************************************************************************)
(* C19, C20: resizing.                                                     *)
(***************************************************************************)
Resized == pc \in {"resized", "failed"}

\* C19: resizeImage fails with the power-of-two error on a target that is
\* not a power of two, and otherwise returns an image of exactly the target
\* width and height with width*height*4 bytes, in every mode.
C19_ExactTarget ==
    Resized =>
        IF ~IsPowerOfTwo(opts.width) \/ ~IsPowerOfTwo(opts.height)
        THEN result.error = "TargetNotPowerOf2"
        ELSE /\ result.error = "none"
             /\ result.width = opts.width
             /\ result.height = opts.height
             /\ Len(result.pixels) = opts.width * opts.height * 4

\* pixel (x, y) of an image as its 4 bytes
PixelAt(img, x, y) ==
    SubSeq(img.pixels, (y * img.width + x) * 4 + 1, (y * img.width + x) * 4 + 4)

\* C20: auto-resizing an image that is not power-of-two sized, with a padding
\* mode and preferLarger, gives an image at least as wide and as tall in
\* which every source pixel sits unchanged at one fixed non-negative offset
\* and every other pixel is the fill colour.
C20_PaddingKeepsContent ==
    (/\ Resized
     /\ opts.resizeMode \in {"pad", "pad-center"}
     /\ opts.preferLargerResize
     /\ ~(IsPowerOfTwo(image.width) /\ IsPowerOfTwo(image.height)))
        => /\ result.error = "none"
           /\ result.width >= image.width
           /\ result.height >= image.height
           /\ \E ox \in 0..(result.width - image.width),
                 oy \in 0..(result.height - image.height) :
                 \A x \in 0..(result.width - 1), y \in 0..(result.height - 1) :
                     PixelAt(result, x, y)
                         = IF /\ x >= ox /\ x < ox + image.width
                              /\ y >= oy /\ y < oy + image.height
                           THEN PixelAt(image, x - ox, y - oy)
                           ELSE opts.fillColor

(***************************************************************************)
(* The block decoders on encoded bytes that no encoder of this repository  *)
(* need have written: any endpoint order, any index, any alpha field.      *)
(***************************************************************************)
\* raw 16-bit endpoints: black, blue, green, magenta
BlockEndpoints == {0, 31, 2016, 63519}

\* the 4 index bytes of a block: 228 is 0,1,2,3 along a row
BlockIndexBytes ==
    { <<228, 228, 228, 228>>, <<27, 177, 78, 228>>, <<255, 255, 255, 255>>,
      <<0, 85, 170, 255>> }

\* the 8 bytes before the colour block of DXT3/DXT5: as DXT5, two endpoints
\* and 48 bits of indices (136, 198, 250 is 0,1,..,7); as DXT3, 16 nibbles
BlockAlphaFields ==
    { <<255, 0, 136, 198, 250, 136, 198, 250>>,
      <<10, 200, 136, 198, 250, 255, 0, 119>>,
      <<200, 100, 0, 0, 0, 128, 255, 255>> }

\* one encoded block: endpoints low byte first, then the index bytes
EncodedBlock(f, alpha, color0, color1, idx) ==
    (IF f = DXT1 THEN <<>> ELSE alpha)
    \o <<color0 % 256, color0 \div 256, color1 % 256, color1 \div 256>> \o idx

\* an encoded level in hand, with the dimensions the decoder is given; the
\* blocks alternate the endpoint order
InitBlocks ==
    \E w \in 1..MaxDim, hh \in 1..MaxDim, f \in {DXT1, DXT3, DXT5},
       alpha \in BlockAlphaFields, color0 \in BlockEndpoints,
       color1 \in BlockEndpoints, idx \in BlockIndexBytes :
        /\ pc = "compressed"
        /\ image = [error |-> "none", width |-> w, height |-> hh, pixels |-> <<>>]
        /\ opts = [DEFAULT_OPTIONS EXCEPT !.preferredFormat = f]
        /\ payload =
               LET nb == blocksWide(w) * blocksWide(hh)
                   bs == IF f = DXT1 THEN 8 ELSE 16
               IN layBlocks(Tup([b \in 1..nb |->
                                IF b % 2 = 1
                                THEN EncodedBlock(f, alpha, color0, color1, idx)
                                ELSE EncodedBlock(f, alpha, color1, color0, idx)]),
                            nb, bs)
        /\ data = <<>>
        /\ header = NoParse
        /\ mipmaps = NoChain
        /\ result = NoImage
        /\ description = NoDescription

NextBlocks == DecompressDXT

SpecBlocks == InitBlocks /\ [][NextBlocks]_vars

(***************************************************************************)
(* C21..C23: the block decoders.                                           *)
(***************************************************************************)
\* bytes per encoded block of the variant in hand
BlockBytes == IF opts.preferredFormat = DXT1 THEN 8 ELSE 16

\* offset in the payload of the block that holds pixel p, and p's texel in it
BlockAt(p) ==
    (((p \div image.width) \div 4) * Ceil(image.width, 4) + ((p % image.width) \div 4))
        * BlockBytes

TexelAt(p) == 4 * ((p \div image.width) % 4) + ((p % image.width) % 4)

\* the raw endpoints and the 2-bit index stored for pixel p
Endpoint0(p) ==
    payload[BlockAt(p) + BlockBytes - 7] + 256 * payload[BlockAt(p) + BlockBytes - 6]

Endpoint1(p) ==
    payload[BlockAt(p) + BlockBytes - 5] + 256 * payload[BlockAt(p) + BlockBytes - 4]

StoredIndex(p) ==
    (payload[BlockAt(p) + BlockBytes - 3 + (TexelAt(p) \div 4)]
        \div Pow2(2 * (TexelAt(p) % 4))) % 4

\* (a * x + b * y) / n rounded, channel by channel, of the expanded endpoints
Blend(color0, color1, a, b, n) ==
    <<Round(a * rgb565ToRgb888(color0)[1] + b * rgb565ToRgb888(color1)[1], n),
      Round(a * rgb565ToRgb888(color0)[2] + b * rgb565ToRgb888(color1)[2], n),
      Round(a * rgb565ToRgb888(color0)[3] + b * rgb565ToRgb888(color1)[3], n)>>

\* the table with both modes: blends when c0 > c1, else average and black
TwoModeTable(color0, color1) ==
    IF color0 > color1
    THEN <<Blend(color0, color1, 1, 0, 1), Blend(color0, color1, 0, 1, 1),
           Blend(color0, color1, 2, 1, 3), Blend(color0, color1, 1, 2, 3)>>
    ELSE <<Blend(color0, color1, 1, 0, 1), Blend(color0, color1, 0, 1, 1),
           Blend(color0, color1, 1, 1, 2), <<0, 0, 0>> >>

\* the table with the blends whatever the endpoint order
BlendTable(color0, color1) ==
    <<Blend(color0, color1, 1, 0, 1), Blend(color0, color1, 0, 1, 1),
      Blend(color0, color1, 2, 1, 3), Blend(color0, color1, 1, 2, 3)>>

RgbOf(img, p) == <<img.pixels[4 * p + 1], img.pixels[4 * p + 2], img.pixels[4 * p + 3]>>

\* C21 as stated: in all three block decoders the colour of a pixel is its
\* entry of the two-mode table (blends when c0 > c1, else average and black).
C21_SharedColourTable ==
    Decoded =>
        \A p \in 0..(PixelCount(image) - 1) :
            RgbOf(result, p) = TwoModeTable(Endpoint0(p), Endpoint1(p))[StoredIndex(p) + 1]

\* C21: decompressDXT1 takes a pixel's colour from the two-mode table;
\* decompressDXT3 and decompressDXT5 take it from the 2/3-1/3 and 1/3-2/3
\* blends whatever the order of the endpoints.
C21_ColourTablePerVariant ==
    Decoded =>
        \A p \in 0..(PixelCount(image) - 1) :
            RgbOf(result, p) =
                IF opts.preferredFormat = DXT1
                THEN TwoModeTable(Endpoint0(p), Endpoint1(p))[StoredIndex(p) + 1]
                ELSE BlendTable(Endpoint0(p), Endpoint1(p))[StoredIndex(p) + 1]

\* DXT5, blue before magenta (c0 < c1): pixel 2 holds index 2 and decodes to
\* the 2/3-1/3 blend
C21_Witness ==
    /\ Decoded
    /\ opts.preferredFormat = DXT5
    /\ image.width = 4
    /\ Endpoint0(2) = 31
    /\ Endpoint1(2) = 63519
    /\ StoredIndex(2) = 2
    /\ RgbOf(result, 2) = <<85, 0, 255>>

\* bit j (0..47) of the little-endian field in bytes 2..7 of pixel p's block
FieldBit(p, j) == (payload[BlockAt(p) + 3 + (j \div 8)] \div Pow2(j % 8)) % 2

\* the 3-bit index of pixel p's texel in that field
FieldIndex(p) ==
    FieldBit(p, 3 * TexelAt(p)) + 2 * FieldBit(p, 3 * TexelAt(p) + 1)
        + 4 * FieldBit(p, 3 * TexelAt(p) + 2)

\* C22: decompressDXT5 gives every texel the ramp entry selected by its three
\* bits of the 48-bit field in bytes 2..7, texels 10..15 included.
C22_FullAlphaField ==
    Decoded /\ opts.preferredFormat = DXT5 =>
        \A p \in 0..(PixelCount(image) - 1) :
            AlphaOf(result, p) =
                buildAlphaPalette(payload[BlockAt(p) + 1], payload[BlockAt(p) + 2])
                    [FieldIndex(p) + 1]

\* C23: decompressDXT1 gives a pixel alpha 0 exactly when its stored index is
\* 3 and its block's endpoints satisfy c0 <= c1, and alpha 255 otherwise; the
\* output holds the width x height pixels only, each taken from its own texel,
\* whatever the texels of an edge tile outside the image hold.
C23_PunchThroughAlpha ==
    Decoded /\ opts.preferredFormat = DXT1 =>
        /\ Len(result.pixels) = 4 * PixelCount(image)
        /\ \A p \in 0..(PixelCount(image) - 1) :
            /\ AlphaOf(result, p) =
                   IF StoredIndex(p) = 3 /\ Endpoint0(p) <= Endpoint1(p) THEN 0 ELSE 255
            /\ RgbOf(result, p) = TwoModeTable(Endpoint0(p), Endpoint1(p))[StoredIndex(p) + 1]

\* a 5x3 level, two edge tiles, equal endpoints: pixel 3 holds index 3 and is
\* transparent, pixel 0 holds index 0 and is opaque
C23_Witness ==
    /\ Decoded
    /\ opts.preferredFormat = DXT1
    /\ image.width = 5
    /\ image.height = 3
    /\ Len(payload) = 16
    /\ Endpoint0(3) = 31
    /\ Endpoint1(3) = 31
    /\ StoredIndex(3) = 3
    /\ StoredIndex(4) = 0
    /\ AlphaOf(result, 3) = 0
    /\ AlphaOf(result, 4) = 255
    /\ Len(result.pixels) = 60

(***************************************************************************)
(* generatePalette on its own.                                             *)
(***************************************************************************)
\* generatePalette(image.pixels, opts.maxColors)
GeneratePalette ==
    /\ pc = "pixels"
    /\ LET g == generatePalette(image.pixels, opts.maxColors)
       IN result' = [error |-> "none", palette |-> g.palette, indices |-> g.indices]
    /\ pc' = "generated"
    /\ UNCHANGED <<data, header, mipmaps, image, opts, payload, description>>

\* colours at distances that tie (10 and 30 from 20) and that do not
PaletteColours ==
    << <<0, 0, 0>>, <<10, 0, 0>>, <<20, 0, 0>>, <<30, 0, 0>>, <<0, 12, 5>> >>

\* n pixels, pixel i of colour f[i] and alpha 60 * i
PixelBuffer(n, f) ==
    Tup([k \in 1..(4 * n) |->
        IF (k - 1) % 4 = 3 THEN (60 * ((k - 1) \div 4)) % 256
        ELSE PaletteColours[f[(k - 1) \div 4]][((k - 1) % 4) + 1]])

\* 257 pixels of 257 colours: one more than a byte counts
ManyColours == Tup([k \in 1..(4 * 257) |->
    LET i == (k - 1) \div 4
    IN IF (k - 1) % 4 = 0 THEN i % 256
       ELSE IF (k - 1) % 4 = 1 THEN i \div 256
       ELSE IF (k - 1) % 4 = 2 THEN 7 ELSE 255])

InitPalette ==
    \E n \in 0..MaxPixels, m \in (1..MaxColors) \cup {257} :
        \E f \in [0..(n - 1) -> 1..Len(PaletteColours)] :
            /\ pc = "pixels"
            /\ image = [error |-> "none", width |-> IF m = 257 THEN 257 ELSE n,
                        height |-> 1,
                        pixels |-> IF m = 257 THEN ManyColours ELSE PixelBuffer(n, f)]
            /\ opts = [maxColors |-> m]
            /\ data = <<>>
            /\ header = NoParse
            /\ mipmaps = NoChain
            /\ payload = <<>>
            /\ result = NoImage
            /\ description = NoDescription

NextPalette == GeneratePalette

SpecPalette == InitPalette /\ [][NextPalette]_vars

(***************************************************************************)
(* C24, C25: the palette generator.                                        *)
(***************************************************************************)
Generated == pc = "generated"

\* the distinct (R,G,B) triples of the buffer, and where each first appears
Triples == {RgbOf(image, p) : p \in 0..(PixelCount(image) - 1)}

FirstAt(c) ==
    CHOOSE p \in 0..(PixelCount(image) - 1) :
        /\ RgbOf(image, p) = c
        /\ \A q \in 0..(p - 1) : RgbOf(image, q) # c

\* entry e (from 0) of the palette returned
EntryOf(e) ==
    <<result.palette[3 * e + 1], result.palette[3 * e + 2], result.palette[3 * e + 3]>>

Entries == Len(result.palette) \div 3

\* C24: generatePalette returns one index per pixel, at most maxColors palette
\* entries and only indices below the number of entries; with no more distinct
\* triples than maxColors the palette is the distinct triples in order of first
\* appearance and every pixel's entry is exactly its colour.
C24_PaletteWellFormed ==
    Generated =>
        /\ Len(result.indices) = PixelCount(image)
        /\ Entries <= opts.maxColors
        /\ \A p \in 0..(PixelCount(image) - 1) : result.indices[p + 1] < Entries
        /\ Cardinality(Triples) <= opts.maxColors =>
            /\ Entries = Cardinality(Triples)
            /\ \A e \in 0..(Entries - 1) : EntryOf(e) \in Triples
            /\ \A p \in 0..(PixelCount(image) - 1) :
                   EntryOf(result.indices[p + 1]) = RgbOf(image, p)
            /\ \A e1, e2 \in 0..(Entries - 1) :
                   e1 < e2 => FirstAt(EntryOf(e1)) < FirstAt(EntryOf(e2))

\* the number of distinct triples that first appear before triple c does
RankOf(c) == Cardinality({t \in Triples : FirstAt(t) < FirstAt(c)})

\* squared RGB distance between pixel p and palette entry e
DistanceTo(p, e) ==
    Sq(RgbOf(image, p)[1] - EntryOf(e)[1]) + Sq(RgbOf(image, p)[2] - EntryOf(e)[2])
        + Sq(RgbOf(image, p)[3] - EntryOf(e)[3])

FaultyFiles ==
    { SubSeq(HeaderBytes(m,
                 [NoHeader EXCEPT !.version = 1, !.compression = c, !.alphaSize = a,
                                  !.width = 2, !.height = 2,
                                  !.mipOffsets = Table2(s, 150, s + 2, 148),
                                  !.mipSizes = Table2(s, 8, s + 2, z)])
             \o Ramp(10), 1, n) :
        m \in {MAGIC, <<66, 76, 80, 49>>}, c \in 0..4, a \in {0, 8}, s \in {0, 16},
        z \in {0, 8, 41}, n \in {2, 100, 147, 158} }

InitFaulty ==
    /\ pc = "start"
    /\ data \in FaultyFiles
    /\ header = NoParse
    /\ mipmaps = NoChain
    /\ image = NoImage
    /\ opts = NoOpts
    /\ payload = <<>>
    /\ result = NoImage
    /\ description = NoDescription

SpecFaulty == InitFaulty /\ [][NextDecode]_vars

(***************************************************************************)
(* C26: the order of the decoder's failures.                               *)
(***************************************************************************)
\* what is wrong with the file in hand, read from its bytes
U32At(off) ==
    data[off + 1] + 256 * data[off + 2] + 65536 * data[off + 3] + 16777216 * data[off + 4]

WrongMagic == Len(data) < 4 \/ SubSeq(data, 1, 4) # <<66, 76, 80, 50>>

ShortHeader == Len(data) < 148

Populated(i) == U32At(20 + 4 * i) > 0 /\ U32At(84 + 4 * i) > 0

SlotOutside == \E i \in 0..15 : Populated(i) /\ U32At(20 + 4 * i) + U32At(84 + 4 * i) > Len(data)

NoSlot == \A i \in 0..15 : ~Populated(i)

UnknownKind == data[9] \notin {1, 2, 3}

\* decodeBlpData has returned or thrown, and what it threw
Ended == pc \in {"failed", "decoded"}

Thrown ==
    IF header.error \notin {"unset", "none"} THEN header.error
    ELSE IF mipmaps.error \notin {"unset", "none"} THEN mipmaps.error
    ELSE IF result.error \notin {"unset", "none"} THEN result.error
    ELSE "none"

\* C26: decodeBlpData fails with the bad-magic error before anything else,
\* then on a header shorter than 0x94 bytes, then on a populated slot out of
\* bounds, then on an empty chain, and on an unsupported compression kind only
\* when the chain is in bounds and not empty; a failing decode returns no image.
C26_FailurePrecedence ==
    Ended =>
        /\ Thrown = IF WrongMagic THEN "BadMagic"
                    ELSE IF ShortHeader THEN "RangeError"
                    ELSE IF SlotOutside THEN "OutOfBounds"
                    ELSE IF NoSlot THEN "EmptyChain"
                    ELSE IF UnknownKind THEN "UnsupportedCompression"
                    ELSE "none"
        /\ Thrown # "none" => pc = "failed" /\ result.pixels = <<>> /\ result.error # "none"

\* an unknown compression kind and no populated slot: the empty-chain error
C26_Witness ==
    /\ Ended
    /\ ~WrongMagic
    /\ ~ShortHeader
    /\ UnknownKind
    /\ NoSlot
    /\ header.h.compression = 4
    /\ result.error = "EmptyChain"

(***************************************************************************)
(* C27: the DXT1 encoder and transparency.                                 *)
(***************************************************************************)
\* the raw endpoints of DXT1 block b (from 0) of the payload and the index
\* it stores for its texel t
Dxt1Endpoint0(b) == payload[8 * b + 1] + 256 * payload[8 * b + 2]

Dxt1Endpoint1(b) == payload[8 * b + 3] + 256 * payload[8 * b + 4]

Dxt1Index(b, t) == (payload[8 * b + 5 + (t \div 4)] \div Pow2(2 * (t % 4))) % 4

\* C27: every block compressDXT1 emits has raw endpoints c0 >= c1 and uses
\* colour index 3 only when c0 > c1, so the image decoded from it has alpha 255
\* at every pixel, whatever the alpha of the source.
C27_Dxt1AlwaysOpaque ==
    (Compressed \/ Decoded) /\ opts.preferredFormat = DXT1 =>
        /\ Len(payload) = 8 * Ceil(image.width, 4) * Ceil(image.height, 4)
        /\ \A b \in 0..((Len(payload) \div 8) - 1) :
            /\ Dxt1Endpoint0(b) >= Dxt1Endpoint1(b)
            /\ \A t \in 0..15 : Dxt1Index(b, t) = 3 => Dxt1Endpoint0(b) > Dxt1Endpoint1(b)
        /\ Decoded => \A p \in 0..(PixelCount(image) - 1) : AlphaOf(result, p) = 255

\* a source pixel of alpha 0 stored with index 3 and decoded opaque
C27_Witness ==
    /\ Decoded
    /\ opts.preferredFormat = DXT1
    /\ image.width = 4
    /\ image.height = 4
    /\ \E p \in 0..15 :
        /\ AlphaOf(image, p) = 0
        /\ Dxt1Index(0, p) = 3
        /\ AlphaOf(result, p) = 255

(***************************************************************************)
(* C28: the palette through the builder and the decoder.                   *)
(***************************************************************************)
\* the image in hand is rebuilt as a palette file with 8-bit alpha, and its
\* sides are powers of two
PaletteRebuild ==
    /\ RoundTripEnded
    /\ opts.compression = PALETTE
    /\ opts.alphaSize = 8
    /\ IsPowerOfTwo(image.width)
    /\ IsPowerOfTwo(image.height)

\* C28: a power-of-two image with at most 256 distinct colours, built as a
\* palette file with 8-bit alpha and decoded, comes back with exactly its R,
\* G, B and A bytes at every pixel.
C28_PaletteRoundTrip ==
    PaletteRebuild =>
        /\ pc = "reopened"
        /\ result.width = image.width
        /\ result.height = image.height
        /\ result.pixels = image.pixels

(***************************************************************************)
(* C29: the one palette of a palette file and its levels.                  *)
(***************************************************************************)
\* entry e of the palette written at 0x94, as the builder lays it: R, G, B
WrittenEntry(e) == <<data[148 + 4 * e + 1], data[148 + 4 * e + 2], data[148 + 4 * e + 3]>>

\* the index stored for texel p of level k (from 1) of the walked file
LevelIndex(k, p) == mipmaps.levels[k].data[p + 1]

\* the levels of the walked palette file whose texels all point at their own
\* colour in the written palette
LevelsInPalette ==
    {k \in 1..Len(mipmaps.levels) :
        \A p \in 0..(PixelCount(SizedChain[k]) - 1) :
            WrittenEntry(LevelIndex(k, p)) = RgbOf(SizedChain[k], p)}

\* a palette file was built and walked, every level of the builder found
PaletteFileWalked ==
    /\ Walked
    /\ mipmaps.error = "none"
    /\ header.h.compression = 1
    /\ Len(mipmaps.levels) = Len(SizedChain)

\* C29: in a palette file every level uses the palette written after the
\* header: the index stored for a texel of level k selects, in that palette,
\* the colour generatePalette chose for the texel (with no more than 256
\* colours, the texel's own colour).
C29_SharedPalette ==
    PaletteFileWalked => LevelsInPalette = 1..Len(mipmaps.levels)

(***************************************************************************)
(* C30: payloads shorter than the codec consumes.                          *)
(***************************************************************************)
\* the bytes the codec selected by the header reads for a w x hh level
Consumed(h, w, hh) ==
    IF h.compression = 1
    THEN w * hh + (IF h.alphaSize = 8 THEN w * hh
                   ELSE IF h.alphaSize = 4 THEN Ceil(w * hh, 2)
                   ELSE IF h.alphaSize = 1 THEN Ceil(w * hh, 8)
                   ELSE 0)
    ELSE IF h.compression = 2
    THEN (IF h.preferredFormat \in {1, 7} THEN 16 ELSE 8) * Ceil(w, 4) * Ceil(hh, 4)
    ELSE 4 * w * hh

\* C30: decodeBlpData returns an image only when the base level's payload is
\* at least as long as the selected codec consumes for the level's dimensions
\* and, for a palette file, the 1024 palette bytes at 0x94 are in the file.
C30_NoShortDecode ==
    Dispatched /\ result.error = "none" =>
        /\ mipmaps.levels[1].size >=
               Consumed(header.h, mipmaps.levels[1].width, mipmaps.levels[1].height)
        /\ header.h.compression = 1 => Len(data) >= 148 + 1024
====
